---- MODULE Spec2Model ----
(***************************************************************************)
(* A model of codeGROOVE-dev/slacker: the PR state resolver                *)
(* (github.Client.GetPRState), the tenant-partitioned state store with its *)
(* background save worker and crash-safe snapshot files (state.Manager),   *)
(* the gated notification procedure (notify.Manager.NotifyUser), and the   *)
(* event ingestion loop with its handlers (bot.Coordinator.Run).           *)
(*                                                                         *)
(* Time is counted in whole seconds.                                       *)
(***************************************************************************)
EXTENDS Integers, Sequences, FiniteSets, TLC

VARIABLES
    \* ---- resolver (cmd/server/main.go, package github) ----
    rin,          \* the signals fetched for one GetPRState call
    rout,         \* what that call returned
    \* ---- state.Manager ----
    data,         \* m.data: workspaceID -> WorkspaceData (NoData when absent)
    saveChan,     \* m.saveChan: queue of workspace ids
    disk,         \* the files of m.dataDir: path -> file content (NoFile when absent)
    \* ---- saveWorker goroutine ----
    saved,        \* its local map saved: workspaceID -> time of last save (Unset when absent)
    wpc,          \* where the worker is
    wpath,        \* "queue" or "sweep": which select case it is serving
    wcur,         \* workspaceID being saved
    wbuf,         \* what json.Encoder has produced so far
    wsrc,         \* the in-memory maps the encoder has read so far
    wsweep,       \* ids of the sweep loop (state.go:320) still to visit
    wfailed,      \* whether the running saveWorkspaceData took an error return
    wprev,        \* content of the final path when the running save began
    \* ---- clock and ticker ----
    now,          \* current time
    nextTick,     \* when the worker's 30 s ticker fires next
    tickPending,  \* a tick is waiting in ticker.C
    \* ---- NotifyUser calls ----
    ncall,        \* caller -> the local state of its NotifyUser call
    calls,        \* NotifyUser calls started so far
    dmLog,        \* the direct messages Slack has accepted, in order
    \* ---- bot.Coordinator.Run and the handlers it starts ----
    ipc,          \* where Run is: "check", "connecting", "connected" or "stopped"
    iresult,      \* what Run returned
    attempt,      \* connect attempts that have failed in the running retry.Do
    delays,       \* the delays retry.Do has slept in the running retry.Do, in order
    wsConn,       \* c.wsConn: "nil", "open", "broken" or "closed"
    dials,        \* reconnectCount: connections established so far
    cancelled,    \* whether ctx is done
    lastRead,     \* what the latest ReadJSON returned
    handlers,     \* the goroutines started for the decoded messages, in order
    configs,      \* the organisations whose configuration is loaded
    alive,        \* whether the process is running
    remote,       \* what GitHub returns for the pull request: its fields, check runs, reviews
    heap,         \* the *state.PRState objects the handlers allocated, by handler
    objId,        \* PR key -> the object the store's map points at
    pingers,      \* the keepalive goroutines of connectToSprinkler, one for each connection
    nrun,         \* notify.Manager.Run: "running", "checking", "waiting", "stopped"
    \* ---- observation ----
    last,         \* the most recent completed store operation
    lastWrite,    \* workspaceID -> time of the latest durable write of this run
    prevWrite,    \* workspaceID -> time of the durable write before that
    mutTimes,     \* workspaceID -> the times of the mutations applied in memory, in order
    wseen,        \* how many of them were applied when the running save read its first field
    durable,      \* workspaceID -> how many of them the snapshot on disk is known to hold
    loaded,       \* workspaceID -> what the latest load from disk returned
    encSrc,       \* workspaceID -> the in-memory maps the serializer read for the snapshot on disk
    ops,          \* store mutations issued so far
    faults,       \* I/O faults injected so far
    crashes,      \* process restarts so far
    fine          \* short waits taken so far

vars == <<rin, rout, data, saveChan, disk, saved, wpc, wpath, wcur, wbuf, wsrc,
          wsweep, wfailed, wprev, now, nextTick, tickPending, ncall, calls, dmLog,
          ipc, iresult, attempt, delays, wsConn, dials, cancelled, lastRead, handlers,
          configs, alive, remote, heap, objId, pingers, nrun,
          last, lastWrite, prevWrite, mutTimes, wseen, durable, loaded, encSrc, ops, faults, crashes, fine>>

resolverVars == <<rin, rout>>
storeVars == <<data, saveChan, disk, saved, wpc, wpath, wcur, wbuf, wsrc, wsweep,
               wfailed, wprev, now, nextTick, tickPending, last, lastWrite,
               prevWrite, mutTimes, wseen, durable, loaded, encSrc, ops, faults, crashes, fine>>
notifyVars == <<ncall, calls, dmLog>>
ingestVars == <<ipc, iresult, attempt, delays, wsConn, dials, cancelled, lastRead,
                handlers, configs, alive, remote, heap, objId, pingers, nrun>>

(***************************************************************************)
(* Bounds of the model.                                                    *)
(***************************************************************************)
\* longest list of check runs, reviews, requested reviewers and teams fetched
MaxLen == 2

(***************************************************************************)
(* StateResolver: github.Client.GetPRState, main.go:424-510.               *)
(***************************************************************************)
Logins == {"alice", "bob"}
TeamSlugs == {"alice", "core"}
Authors == {"carol"}

\* check runs as (status, conclusion); "waiting" is a status the switch ignores
CheckRuns ==
    {[status |-> s, conclusion |-> ""] : s \in {"in_progress", "queued", "pending"}}
    \cup {[status |-> "completed", conclusion |-> c] : c \in {"success", "skipped", "failure"}}
    \cup {[status |-> "waiting", conclusion |-> "failure"]}

ReviewStates == {"APPROVED", "CHANGES_REQUESTED", "COMMENTED"}

SeqsUpTo(S, n) == UNION {[1..k -> S] : k \in 0..n}

NoRepeat(s) == \A i, j \in 1..Len(s) : i # j => s[i] # s[j]

\* the pull request as GetPR returns it: merged flag, state, author,
\* requested reviewers and requested teams
PullRequests ==
    [merged : BOOLEAN, state : {"open", "closed"}, author : Authors,
     reviewers : {s \in SeqsUpTo(Logins, MaxLen) : NoRepeat(s)},
     teams : {s \in SeqsUpTo(TeamSlugs, MaxLen) : NoRepeat(s)}]

\* main.go:450 - the statuses that make checksRunning true
CheckRunning_onlyInProgress(c) == c.status = "in_progress"
CheckRunning(c) == c.status \in {"in_progress", "queued", "pending"}

\* main.go:452-455 - a completed check that makes checksFailed true
CheckFailed(c) ==
    c.status = "completed" /\ c.conclusion # "success" /\ c.conclusion # "skipped"

\* main.go:446-458 - the loop over checks.CheckRuns
RECURSIVE AnalyzeChecks(_, _, _)
AnalyzeChecks(checks, i, acc) ==
    IF i > Len(checks) THEN acc
    ELSE AnalyzeChecks(checks, i + 1,
            IF CheckRunning(checks[i]) THEN [acc EXCEPT !.checksRunning = TRUE]
            ELSE IF CheckFailed(checks[i]) THEN [acc EXCEPT !.checksFailed = TRUE]
            ELSE acc)

\* main.go:468-481 - the loop over reviews
RECURSIVE AnalyzeReviews(_, _, _)
AnalyzeReviews(reviews, i, acc) ==
    IF i > Len(reviews) THEN acc
    ELSE AnalyzeReviews(reviews, i + 1,
            IF reviews[i] = "APPROVED" THEN [acc EXCEPT !.hasApproval = TRUE]
            ELSE IF reviews[i] = "CHANGES_REQUESTED" THEN [acc EXCEPT !.needsChanges = TRUE]
            ELSE acc)

\* main.go:491,494,497 - []string{pr.GetUser().GetLogin()}
BlockedOnAuthor_reviewers(pr) == pr.reviewers
BlockedOnAuthor(pr) == <<pr.author>>

\* main.go:505 - "team:"+team.GetSlug()
TeamEntry_bare(slug) == slug
TeamEntry(slug) == "team:" \o slug

\* main.go:501-506 - requested reviewers, then requested teams, appended in order
RequestedBlockers(pr) ==
    pr.reviewers \o [i \in 1..Len(pr.teams) |-> TeamEntry(pr.teams[i])]

\* a Decide that tests approval before requested changes
Decide_approvalFirst(pr, f) ==
    IF f.checksRunning THEN [state |-> "test_tube", blockedOn |-> <<>>]
    ELSE IF f.checksFailed THEN [state |-> "broken_heart", blockedOn |-> BlockedOnAuthor(pr)]
    ELSE IF f.hasApproval THEN [state |-> "check", blockedOn |-> BlockedOnAuthor(pr)]
    ELSE IF f.needsChanges THEN [state |-> "carpentry_saw", blockedOn |-> BlockedOnAuthor(pr)]
    ELSE [state |-> "hourglass", blockedOn |-> RequestedBlockers(pr)]

\* main.go:483-509 - the if/else chain on the four flags
Decide(pr, f) ==
    IF f.checksRunning THEN [state |-> "test_tube", blockedOn |-> <<>>]
    ELSE IF f.checksFailed THEN [state |-> "broken_heart", blockedOn |-> BlockedOnAuthor(pr)]
    ELSE IF f.needsChanges THEN [state |-> "carpentry_saw", blockedOn |-> BlockedOnAuthor(pr)]
    ELSE IF f.hasApproval THEN [state |-> "check", blockedOn |-> BlockedOnAuthor(pr)]
    ELSE [state |-> "hourglass", blockedOn |-> RequestedBlockers(pr)]

\* main.go:430-509 - GetPRState once the pull request is fetched; a nil
\* []string is the empty sequence
GetPRState(pr, checks, reviews) ==
    IF pr.merged THEN [state |-> "pray", blockedOn |-> <<>>]
    ELSE IF pr.state = "closed" THEN [state |-> "face_palm", blockedOn |-> <<>>]
    ELSE LET c == AnalyzeChecks(checks, 1, [checksRunning |-> FALSE, checksFailed |-> FALSE])
             r == AnalyzeReviews(reviews, 1, [hasApproval |-> FALSE, needsChanges |-> FALSE])
         IN  Decide(pr, [checksRunning |-> c.checksRunning, checksFailed |-> c.checksFailed,
                         hasApproval |-> r.hasApproval, needsChanges |-> r.needsChanges])

(***************************************************************************)
(* StateStore: state.Manager, state.go.                                    *)
(***************************************************************************)
Tenants == {"default", "w2"}
UserIDs == {"U1"}

\* capacity of m.saveChan; the program's is 100 (state.go:61), the model's is smaller
SaveChanCap == 1
\* store mutations issued in one run of the model
MaxOps == 3
\* settings updates issued in one run of the model next to NotifyUser calls
MaxBurst == 2
\* NotifyUser calls started in one run of the model
MaxCalls == 2
MaxGateCalls == 3
MaxWaits == 2
MaxDials == 2
MaxEvents == 2
MaxPanics == 1
\* the time of day, in seconds, at which a run of the scheduler starts (07:40)
StartClock == 7 * 3600 + 40 * 60
\* events read in one run of the model of the tracked pull request
MaxTrackEvents == 3
MaxCreateEvents == 2
\* I/O faults injected in one run of the model
MaxFaults == 1
\* process restarts in one run of the model
MaxCrashes == 1
\* short waits in one run of the model
MaxFine == 2
\* ticks of the 30 s ticker in one run of the model
MaxTicks == 13
\* mutations and short waits happen in the first MutUntil seconds of a timed run
MutUntil == 35

\* state.go:305 - 5*time.Second
DebounceInterval == 5
\* state.go:298 - 30*time.Second
TickerPeriod == 30
\* state.go:321 - 5*time.Minute
SweepWindow == 5 * 60
\* state.go:92 - 30*time.Minute
DefaultDelay == 30 * 60
\* notify.go:245-247 - retry.Attempts(10), retry.Delay(time.Second),
\* retry.MaxDelay(2*time.Minute)
Attempts == 10
RetryDelay == 1
MaxRetryDelay == 2 * 60

\* a time.Time: the zero value, or an instant t; mono tells whether it still
\* carries the monotonic clock reading that time.Now() attaches
ZeroTime == [zero |-> TRUE, t |-> 0, mono |-> FALSE]
TimeAt(t) == [zero |-> FALSE, t |-> t, mono |-> TRUE]
\* Time.Equal compares instants: the monotonic reading is not part of the instant
Instant(tm) == [tm EXCEPT !.mono = FALSE]

\* Go maps are functions on a finite set of keys
EmptyMap == <<>>
MapPut(m, k, v) == [x \in (DOMAIN m) \cup {k} |-> IF x = k THEN v ELSE m[x]]

NoData == [exists |-> FALSE]
NoFile == [exists |-> FALSE]

\* state.go:89-94, 100-104 - the defaults GetUserPreferences returns
DefaultPrefs ==
    [RealTimeNotifications |-> TRUE, ChannelNotifyDelay |-> DefaultDelay,
     DailyReminders |-> TRUE, Timezone |-> "", LastNotified |-> ZeroTime]

\* the zero value of UserPreferences (state.go:15-21)
ZeroPrefs ==
    [RealTimeNotifications |-> FALSE, ChannelNotifyDelay |-> 0,
     DailyReminders |-> FALSE, Timezone |-> "", LastNotified |-> ZeroTime]

\* state.go:140, 155 - fmt.Sprintf("%s/%s#%d", owner, repo, number)
PRKey_noSlash(owner, repo, number) == owner \o repo \o "#" \o ToString(number)
PRKey(owner, repo, number) == owner \o "/" \o repo \o "#" \o ToString(number)

\* state.go:259, 340 - filepath.Join(m.dataDir, workspaceID + ".json.gz")
FileName_shared(ws) == "state.json.gz"
FileName(ws) == ws \o ".json.gz"
\* state.go:341 - filename + ".tmp"
TempFile_inPlace(ws) == FileName(ws)
TempFile(ws) == FileName(ws) \o ".tmp"

Paths == {FileName(ws) : ws \in Tenants} \cup {TempFile(ws) : ws \in Tenants}

\* state.go:397-404
RECURSIVE contains(_, _)
contains(slice, item) ==
    IF slice = <<>> THEN FALSE
    ELSE IF Head(slice) = item THEN TRUE
    ELSE contains(Tail(slice), item)

(***************************************************************************)
(* The snapshot codec: encoding/json over the struct tags of state.go:15-46*)
(* inside compress/gzip.  A JSON document is a record named by the tags.   *)
(***************************************************************************)
\* time.Time.MarshalJSON writes the wall-clock instant (RFC 3339); the
\* monotonic reading is not written
EncodeTime(tm) == [zero |-> tm.zero, sec |-> tm.t]
\* time.Time.UnmarshalJSON yields a Time without monotonic reading
DecodeTime(j) == [zero |-> j.zero, t |-> j.sec, mono |-> FALSE]

\* a nil slice is written as null, and null is read back as a nil slice
EncodeSlice(sl) ==
    IF sl = <<>> THEN [null |-> TRUE, elems |-> <<>>] ELSE [null |-> FALSE, elems |-> sl]
DecodeSlice(j) == IF j.null THEN <<>> ELSE j.elems

\* state.go:15-21 - UserPreferences and its json tags
EncodePrefs(p) ==
    [real_time_notifications |-> p.RealTimeNotifications,
     channel_notify_delay |-> p.ChannelNotifyDelay,
     daily_reminders |-> p.DailyReminders,
     timezone |-> p.Timezone,
     last_notified |-> EncodeTime(p.LastNotified)]
DecodePrefs(j) ==
    [RealTimeNotifications |-> j.real_time_notifications,
     ChannelNotifyDelay |-> j.channel_notify_delay,
     DailyReminders |-> j.daily_reminders,
     Timezone |-> j.timezone,
     LastNotified |-> DecodeTime(j.last_notified)]

\* a PRState encoder that leaves the thread reference out
EncodePRState_noThread(pr) ==
    [owner |-> pr.Owner, repo |-> pr.Repo, number |-> pr.Number, title |-> pr.Title,
     author |-> pr.Author, state |-> pr.State, blocked_on |-> EncodeSlice(pr.BlockedOn),
     reviewers |-> EncodeSlice(pr.Reviewers), thread_ts |-> "",
     channel_id |-> "", last_updated |-> EncodeTime(pr.LastUpdated),
     last_notified |-> EncodeTime(pr.LastNotified)]
\* state.go:24-37 - PRState and its json tags
EncodePRState(pr) ==
    [owner |-> pr.Owner, repo |-> pr.Repo, number |-> pr.Number, title |-> pr.Title,
     author |-> pr.Author, state |-> pr.State, blocked_on |-> EncodeSlice(pr.BlockedOn),
     reviewers |-> EncodeSlice(pr.Reviewers), thread_ts |-> pr.ThreadTS,
     channel_id |-> pr.ChannelID, last_updated |-> EncodeTime(pr.LastUpdated),
     last_notified |-> EncodeTime(pr.LastNotified)]
DecodePRState(j) ==
    [Owner |-> j.owner, Repo |-> j.repo, Number |-> j.number, Title |-> j.title,
     Author |-> j.author, State |-> j.state, BlockedOn |-> DecodeSlice(j.blocked_on),
     Reviewers |-> DecodeSlice(j.reviewers), ThreadTS |-> j.thread_ts,
     ChannelID |-> j.channel_id, LastUpdated |-> DecodeTime(j.last_updated),
     LastNotified |-> DecodeTime(j.last_notified)]

\* state.go:42-44 - the three maps of WorkspaceData
EncodeUsers(users) == [u \in DOMAIN users |-> EncodePrefs(users[u])]
EncodePRs(prs) == [k \in DOMAIN prs |-> EncodePRState(prs[k])]
EncodeUserPRs(userPRs) == [u \in DOMAIN userPRs |-> EncodeSlice(userPRs[u])]

\* what the encoder holds before it has read any field
EmptyDoc ==
    [workspace_id |-> "", users |-> EmptyMap, prs |-> EmptyMap, user_prs |-> EmptyMap,
     last_updated |-> EncodeTime(ZeroTime)]

\* state.go:285-292 - json.NewDecoder(gz).Decode(&data)
DecodeWorkspace(doc) ==
    [exists |-> TRUE,
     WorkspaceID |-> doc.workspace_id,
     Users |-> [u \in DOMAIN doc.users |-> DecodePrefs(doc.users[u])],
     PRs |-> [k \in DOMAIN doc.prs |-> DecodePRState(doc.prs[k])],
     UserPRs |-> [u \in DOMAIN doc.user_prs |-> DecodeSlice(doc.user_prs[u])],
     LastUpdated |-> DecodeTime(doc.last_updated)]

\* state.go:258-293 - loadWorkspaceDataLocked: nil when the file is absent,
\* or is not a whole gzip stream holding one JSON document
loadWorkspaceDataLocked(ws) ==
    LET f == disk[FileName(ws)]
    IN  IF f.exists /\ f.complete THEN DecodeWorkspace(f.doc) ELSE NoData

\* state.go:236-242 - the fresh record ensureWorkspace makes
NewWorkspace(ws) ==
    [exists |-> TRUE, WorkspaceID |-> ws, Users |-> EmptyMap, PRs |-> EmptyMap,
     UserPRs |-> EmptyMap, LastUpdated |-> TimeAt(now)]

\* state.go:224-245 - ensureWorkspace: the record the caller goes on to mutate
ensureWorkspace(ws) ==
    IF data[ws].exists THEN data[ws]
    ELSE IF loadWorkspaceDataLocked(ws).exists THEN loadWorkspaceDataLocked(ws)
    ELSE NewWorkspace(ws)

\* state.go:76-108 - what GetUserPreferences returns when nothing runs beside
\* it: a tenant absent from memory is looked for on disk, and a user without
\* a record gets the defaults
GetUserPreferences(ws, userID) ==
    LET w == IF data[ws].exists THEN data[ws] ELSE loadWorkspaceDataLocked(ws)
    IN  IF w.exists /\ userID \in DOMAIN w.Users THEN w.Users[userID] ELSE DefaultPrefs

\* state.go:131-143 - state.Manager.GetPRState: the stored item, if the
\* tenant is in memory and has one under the key
StoreGetPRState(ws, owner, repo, number) ==
    IF data[ws].exists /\ PRKey(owner, repo, number) \in DOMAIN data[ws].PRs
    THEN {data[ws].PRs[PRKey(owner, repo, number)]}
    ELSE {}

\* state.go:193-198 - the items of the keys that have one, in order
RECURSIVE CollectPRs(_, _)
CollectPRs(prs, prKeys) ==
    IF prKeys = <<>> THEN <<>>
    ELSE IF Head(prKeys) \in DOMAIN prs
         THEN <<prs[Head(prKeys)]>> \o CollectPRs(prs, Tail(prKeys))
         ELSE CollectPRs(prs, Tail(prKeys))

\* state.go:179-200 - GetUserPRs: nil unless the tenant is in memory and
\* lists keys for the user
GetUserPRs(ws, userID) ==
    IF data[ws].exists /\ userID \in DOMAIN data[ws].UserPRs
    THEN CollectPRs(data[ws].PRs, data[ws].UserPRs[userID])
    ELSE <<>>

\* whether ensureWorkspace(ws) reads the tenant from its snapshot file
LoadsFromDisk(ws) == ~data[ws].exists /\ loadWorkspaceDataLocked(ws).exists

\* state.go:123-127, 172-175, 217-220 - select { case m.saveChan <- id: default: }
Enqueue_unbounded(q, ws) == Append(q, ws)
Enqueue(q, ws) == IF Len(q) < SaveChanCap THEN Append(q, ws) ELSE q

\* state.go:165-169 - add key to the list of every user of blockedOn
RECURSIVE AddToBlocked(_, _, _)
AddToBlocked(userPRs, blockedOn, key) ==
    IF blockedOn = <<>> THEN userPRs
    ELSE LET userID == Head(blockedOn)
             have == IF userID \in DOMAIN userPRs THEN userPRs[userID] ELSE <<>>
         IN  AddToBlocked(
                IF contains(have, key) THEN userPRs
                ELSE MapPut(userPRs, userID, Append(have, key)),
                Tail(blockedOn), key)

(***************************************************************************)
(* Inputs of the store operations.                                         *)
(***************************************************************************)
\* (owner, repo, number) of the pull requests the events are about
PRTriples == {<<"org", "xapp", 1>>, <<"orgx", "app", 1>>}

OpenPR == [merged |-> FALSE, state |-> "open", author |-> "carol",
           reviewers |-> <<"alice">>, teams |-> <<"core">>]
FailedCheck == [status |-> "completed", conclusion |-> "failure"]

\* the pull request the tracked events are about, as GitHub returns it when
\* it is opened: two requested reviewers, no teams, no check runs, no reviews
TrackedPR == [merged |-> FALSE, state |-> "open", author |-> "carol",
              reviewers |-> <<"alice", "bob">>, teams |-> <<>>]
PassedCheck == [status |-> "completed", conclusion |-> "success"]

\* the signal sets whose resolution the events store
Resolutions ==
    {GetPRState(OpenPR, <<>>, <<>>), GetPRState(OpenPR, <<FailedCheck>>, <<>>)}

\* notify.go:458-467 - the record handlePullRequestEvent builds; an item that
\* needs the author to act already has its thread
MakePR(triple, r) ==
    [Owner |-> triple[1], Repo |-> triple[2], Number |-> triple[3],
     Title |-> "fix", Author |-> "carol", State |-> r.state, BlockedOn |-> r.blockedOn,
     Reviewers |-> <<>>,
     ThreadTS |-> IF r.state = "hourglass" THEN "" ELSE "1712.01",
     ChannelID |-> IF r.state = "hourglass" THEN "" ELSE "C1",
     LastUpdated |-> TimeAt(now), LastNotified |-> ZeroTime]

PRInputs == {MakePR(tr, r) : tr \in PRTriples, r \in Resolutions}

Triple(pr) == <<pr.Owner, pr.Repo, pr.Number>>

\* preference records a settings update stores
PrefInputs ==
    {[DefaultPrefs EXCEPT !.RealTimeNotifications = FALSE, !.Timezone = "UTC"],
     [DefaultPrefs EXCEPT !.ChannelNotifyDelay = 15 * 60]}

NoOp == [op |-> "none"]

(***************************************************************************)
(* Store mutations.  Each runs under m.mu.Lock(), so each is one step.     *)
(***************************************************************************)
\* what a mutation of tenant ws leaves in the observation variables, with
\* whether its enqueue found the queue full
ObserveMutation(ws, op) ==
    /\ last' = op @@ ("dropped" :> (Len(saveChan) = SaveChanCap))
    /\ mutTimes' = [mutTimes EXCEPT ![ws] = Append(@, now)]
    /\ loaded' = IF LoadsFromDisk(ws)
                 THEN [loaded EXCEPT ![ws] = [exists |-> TRUE,
                                              got |-> loadWorkspaceDataLocked(ws),
                                              from |-> encSrc[ws]]]
                 ELSE loaded

Observe(ws, op) ==
    /\ ObserveMutation(ws, op)
    /\ ops' = ops + 1

\* state.go:111-128
SetUserPreferences(ws, userID, prefs) ==
    /\ ops < MaxOps
    /\ LET w == ensureWorkspace(ws)
       IN  data' = [data EXCEPT ![ws] =
                       [w EXCEPT !.Users = MapPut(@, userID, prefs),
                                 !.LastUpdated = TimeAt(now)]]
    /\ saveChan' = Enqueue(saveChan, ws)
    /\ Observe(ws, [op |-> "SetUserPreferences", ws |-> ws, userID |-> userID,
                     prefs |-> prefs])
    /\ UNCHANGED <<disk, saved, wpc, wpath, wcur, wbuf, wsrc, wsweep, wfailed, wprev,
                   now, nextTick, tickPending, lastWrite, prevWrite, wseen, durable,
                   encSrc, faults, crashes, fine>>
    /\ UNCHANGED <<resolverVars, notifyVars, ingestVars>>

\* state.go:146-176
\* state.go:146-176 - what SetPRState does to the store
storePRState(ws, pr) ==
    /\ LET w == ensureWorkspace(ws)
           key == PRKey(pr.Owner, pr.Repo, pr.Number)
       IN  /\ data' = [data EXCEPT ![ws] =
                          [w EXCEPT !.PRs = MapPut(@, key, pr),
                                    !.LastUpdated = TimeAt(now),
                                    !.UserPRs = AddToBlocked(@, pr.BlockedOn, key)]]
           /\ ObserveMutation(ws, [op |-> "SetPRState", ws |-> ws, pr |-> pr,
                                   before |-> w.PRs])
    /\ saveChan' = Enqueue(saveChan, ws)
    /\ UNCHANGED <<disk, saved, wpc, wpath, wcur, wbuf, wsrc, wsweep, wfailed, wprev,
                   now, nextTick, tickPending, lastWrite, prevWrite, wseen, durable,
                   encSrc, faults, crashes, fine>>

SetPRState(ws, pr) ==
    /\ ops < MaxOps
    /\ ops' = ops + 1
    /\ storePRState(ws, pr)
    /\ UNCHANGED <<resolverVars, notifyVars, ingestVars>>

\* state.go:203-221 - the body of UpdateLastNotified; a user without a record
\* starts from the zero value of UserPreferences (state.go:212)
touchLastNotified(ws, userID) ==
    LET w == ensureWorkspace(ws)
        prefs == IF userID \in DOMAIN w.Users THEN w.Users[userID] ELSE ZeroPrefs
    IN  [data EXCEPT ![ws] =
            [w EXCEPT !.Users = MapPut(@, userID, [prefs EXCEPT !.LastNotified = TimeAt(now)])]]

\* state.go:203-221 - UpdateLastNotified called on its own
UpdateLastNotified(ws, userID) ==
    /\ ops < MaxOps
    /\ data' = touchLastNotified(ws, userID)
    /\ saveChan' = Enqueue(saveChan, ws)
    /\ Observe(ws, [op |-> "UpdateLastNotified", ws |-> ws, userID |-> userID,
                     before |-> GetUserPreferences(ws, userID)])
    /\ UNCHANGED <<disk, saved, wpc, wpath, wcur, wbuf, wsrc, wsweep, wfailed, wprev,
                   now, nextTick, tickPending, lastWrite, prevWrite, wseen, durable,
                   encSrc, faults, crashes, fine>>
    /\ UNCHANGED <<resolverVars, notifyVars, ingestVars>>

(***************************************************************************)
(* saveWorker (state.go:296-328) and saveWorkspaceData (state.go:331-395). *)
(* saveWorkspaceData holds m.mu only to read m.data[id] (state.go:332-334);*)
(* the encoder then reads the record's fields without the lock, so each    *)
(* field read is a step of its own that mutations may come between.        *)
(***************************************************************************)
Unset == [set |-> FALSE, t |-> 0]
SetAt(t) == [set |-> TRUE, t |-> t]

EmptySrc == [Users |-> EmptyMap, PRs |-> EmptyMap, UserPRs |-> EmptyMap]

\* state.go:305 - exists && time.Since(lastSave) < 5*time.Second
Debounced_never(lastSave) == FALSE
Debounced(lastSave) == lastSave.set /\ now - lastSave.t < DebounceInterval

\* state.go:321 - !exists || time.Since(lastSave) > 5*time.Minute
SweepDue_never(lastSave) == FALSE
SweepDue(lastSave) == ~lastSave.set \/ now - lastSave.t > SweepWindow

\* state.go:332-341 - saveWorkspaceData is entered for id: a tenant that is
\* not in memory makes it return at once
BeginSave(id, path) ==
    /\ wcur' = id
    /\ wpath' = path
    /\ wfailed' = FALSE
    /\ wprev' = disk[FileName(id)]
    /\ wbuf' = EmptyDoc
    /\ wsrc' = EmptySrc
    /\ wpc' = IF data[id].exists THEN "create" ELSE "stamp"

\* state.go:303-307 - a queue item arrives within the debounce interval: continue
WorkerRecvSkip ==
    /\ wpc = "select"
    /\ saveChan # <<>>
    /\ Debounced(saved[Head(saveChan)])
    /\ saveChan' = Tail(saveChan)
    /\ UNCHANGED <<data, disk, saved, wpc, wpath, wcur, wbuf, wsrc, wsweep, wfailed,
                   wprev, now, nextTick, tickPending, last, lastWrite, prevWrite,
                   mutTimes, wseen, durable, loaded, encSrc, ops, faults, crashes, fine>>
    /\ UNCHANGED <<resolverVars, notifyVars, ingestVars>>

\* state.go:303-308 - a queue item arrives and is saved
WorkerRecvSave ==
    /\ wpc = "select"
    /\ saveChan # <<>>
    /\ ~Debounced(saved[Head(saveChan)])
    /\ saveChan' = Tail(saveChan)
    /\ BeginSave(Head(saveChan), "queue")
    /\ UNCHANGED <<data, disk, saved, wsweep, now, nextTick, tickPending, last,
                   lastWrite, prevWrite, mutTimes, wseen, durable, loaded, encSrc, ops, faults, crashes, fine>>
    /\ UNCHANGED <<resolverVars, notifyVars, ingestVars>>

\* state.go:311-318 - a tick arrives: list the tenants in memory
WorkerTick ==
    /\ wpc = "select"
    /\ tickPending
    /\ tickPending' = FALSE
    /\ wsweep' = {id \in Tenants : data[id].exists}
    /\ wpc' = "sweep"
    /\ wpath' = "sweep"
    /\ UNCHANGED <<data, saveChan, disk, saved, wcur, wbuf, wsrc, wfailed, wprev, now,
                   nextTick, last, lastWrite, prevWrite, mutTimes, wseen, durable, loaded, encSrc, ops,
                   faults, crashes, fine>>
    /\ UNCHANGED <<resolverVars, notifyVars, ingestVars>>

\* state.go:320-324 - the sweep saves a tenant never saved or saved long ago
SweepSave(id) ==
    /\ wpc = "sweep"
    /\ id \in wsweep
    /\ SweepDue(saved[id])
    /\ wsweep' = wsweep \ {id}
    /\ BeginSave(id, "sweep")
    /\ UNCHANGED <<data, saveChan, disk, saved, now, nextTick, tickPending, last,
                   lastWrite, prevWrite, mutTimes, wseen, durable, loaded, encSrc, ops, faults, crashes, fine>>
    /\ UNCHANGED <<resolverVars, notifyVars, ingestVars>>

\* state.go:320-321 - the sweep passes over a tenant saved recently
SweepSkip(id) ==
    /\ wpc = "sweep"
    /\ id \in wsweep
    /\ ~SweepDue(saved[id])
    /\ wsweep' = wsweep \ {id}
    /\ UNCHANGED <<data, saveChan, disk, saved, wpc, wpath, wcur, wbuf, wsrc, wfailed,
                   wprev, now, nextTick, tickPending, last, lastWrite, prevWrite,
                   mutTimes, wseen, durable, loaded, encSrc, ops, faults, crashes, fine>>
    /\ UNCHANGED <<resolverVars, notifyVars, ingestVars>>

\* state.go:320-326 - the sweep loop ends
SweepDone ==
    /\ wpc = "sweep"
    /\ wsweep = {}
    /\ wpc' = "select"
    /\ UNCHANGED <<data, saveChan, disk, saved, wpath, wcur, wbuf, wsrc, wsweep, wfailed,
                   wprev, now, nextTick, tickPending, last, lastWrite, prevWrite,
                   mutTimes, wseen, durable, loaded, encSrc, ops, faults, crashes, fine>>
    /\ UNCHANGED <<resolverVars, notifyVars, ingestVars>>

\* what a step of saveWorkspaceData leaves alone besides disk, wpc and the encoder
SaveFrame ==
    /\ UNCHANGED <<data, saveChan, saved, wpath, wcur, wsweep, wprev, now, nextTick,
                   tickPending, last, mutTimes, loaded, ops, crashes, fine>>
    /\ UNCHANGED <<resolverVars, notifyVars, ingestVars>>

\* state.go:343 - os.Create(tempFile) truncates or creates the temp file
SaveCreateOk ==
    /\ wpc = "create"
    /\ disk' = [disk EXCEPT ![TempFile(wcur)] =
                   [exists |-> TRUE, complete |-> FALSE, doc |-> EmptyDoc]]
    /\ wpc' = "encUsers"
    /\ UNCHANGED <<wseen, durable, wbuf, wsrc, wfailed, lastWrite, prevWrite, encSrc, faults>>
    /\ SaveFrame

\* state.go:344-347 - os.Create fails: return
SaveCreateFail ==
    /\ wpc = "create"
    /\ faults < MaxFaults
    /\ faults' = faults + 1
    /\ wfailed' = TRUE
    /\ wpc' = "stamp"
    /\ UNCHANGED <<wseen, durable, disk, wbuf, wsrc, lastWrite, prevWrite, encSrc>>
    /\ SaveFrame

\* state.go:361 - Encode reads WorkspaceID and Users
SaveEncodeUsers ==
    /\ wpc = "encUsers"
    /\ wbuf' = [wbuf EXCEPT !.workspace_id = data[wcur].WorkspaceID,
                            !.users = EncodeUsers(data[wcur].Users)]
    /\ wsrc' = [wsrc EXCEPT !.Users = data[wcur].Users]
    /\ wseen' = Len(mutTimes[wcur])
    /\ wpc' = "encPRs"
    /\ UNCHANGED <<durable, disk, wfailed, lastWrite, prevWrite, encSrc, faults>>
    /\ SaveFrame

\* state.go:361 - Encode reads PRs
SaveEncodePRs ==
    /\ wpc = "encPRs"
    /\ wbuf' = [wbuf EXCEPT !.prs = EncodePRs(data[wcur].PRs)]
    /\ wsrc' = [wsrc EXCEPT !.PRs = data[wcur].PRs]
    /\ wpc' = "encUserPRs"
    /\ UNCHANGED <<wseen, durable, disk, wfailed, lastWrite, prevWrite, encSrc, faults>>
    /\ SaveFrame

\* state.go:361 - Encode reads UserPRs and LastUpdated and writes the
\* document to the gzip writer; the file is not a whole gzip stream yet
SaveEncodeUserPRsOk ==
    /\ wpc = "encUserPRs"
    /\ wbuf' = [wbuf EXCEPT !.user_prs = EncodeUserPRs(data[wcur].UserPRs),
                            !.last_updated = EncodeTime(data[wcur].LastUpdated)]
    /\ wsrc' = [wsrc EXCEPT !.UserPRs = data[wcur].UserPRs]
    /\ disk' = [disk EXCEPT ![TempFile(wcur)] =
                   [exists |-> TRUE, complete |-> FALSE, doc |-> wbuf']]
    /\ wpc' = "gzclose"
    /\ UNCHANGED <<wseen, durable, wfailed, lastWrite, prevWrite, encSrc, faults>>
    /\ SaveFrame

\* state.go:362-366, 370-374, 378-382, 387-391 - an error after the temp file
\* was created: os.Remove(tempFile), return
SaveAbort(stage) ==
    /\ wpc = stage
    /\ faults < MaxFaults
    /\ faults' = faults + 1
    /\ disk' = [disk EXCEPT ![TempFile(wcur)] = NoFile]
    /\ wfailed' = TRUE
    /\ wpc' = "stamp"
    /\ UNCHANGED <<wseen, durable, wbuf, wsrc, lastWrite, prevWrite, encSrc>>
    /\ SaveFrame

\* state.go:361-367 - Encode fails
SaveEncodeFail == SaveAbort("encUserPRs")

\* state.go:369 - gz.Close() writes the rest of the stream and its trailer
SaveGzCloseOk ==
    /\ wpc = "gzclose"
    /\ disk' = [disk EXCEPT ![TempFile(wcur)].complete = TRUE]
    /\ wpc' = "fclose"
    /\ UNCHANGED <<wseen, durable, wbuf, wsrc, wfailed, lastWrite, prevWrite, encSrc, faults>>
    /\ SaveFrame

\* state.go:369-375 - gz.Close() fails
SaveGzCloseFail == SaveAbort("gzclose")

\* state.go:377 - file.Close()
SaveFileCloseOk ==
    /\ wpc = "fclose"
    /\ wpc' = "rename"
    /\ UNCHANGED <<wseen, durable, disk, wbuf, wsrc, wfailed, lastWrite, prevWrite, encSrc, faults>>
    /\ SaveFrame

\* state.go:377-383 - file.Close() fails
SaveFileCloseFail == SaveAbort("fclose")

\* state.go:386 - os.Rename(tempFile, filename): the durable write
SaveRenameOk ==
    /\ wpc = "rename"
    /\ disk' = [[disk EXCEPT ![FileName(wcur)] = disk[TempFile(wcur)]]
                   EXCEPT ![TempFile(wcur)] = NoFile]
    /\ prevWrite' = [prevWrite EXCEPT ![wcur] = lastWrite[wcur]]
    /\ lastWrite' = [lastWrite EXCEPT ![wcur] = SetAt(now)]
    /\ encSrc' = [encSrc EXCEPT ![wcur] = wsrc]
    /\ durable' = [durable EXCEPT ![wcur] = wseen]
    /\ wpc' = "stamp"
    /\ UNCHANGED <<wseen, wbuf, wsrc, wfailed, faults>>
    /\ SaveFrame

\* state.go:386-392 - os.Rename fails
SaveRenameFail == SaveAbort("rename")

\* state.go:309, 323 - saved[id] = time.Now(), whatever saveWorkspaceData did
SaveStamp ==
    /\ wpc = "stamp"
    /\ saved' = [saved EXCEPT ![wcur] = SetAt(now)]
    /\ wpc' = IF wpath = "queue" THEN "select" ELSE "sweep"
    /\ UNCHANGED <<data, saveChan, disk, wpath, wcur, wbuf, wsrc, wsweep, wfailed, wprev,
                   now, nextTick, tickPending, last, lastWrite, prevWrite, mutTimes, wseen,
                   durable, loaded, encSrc, ops, faults, crashes, fine>>
    /\ UNCHANGED <<resolverVars, notifyVars, ingestVars>>

(***************************************************************************)
(* The clock, the worker's ticker (state.go:298) and process restart.      *)
(***************************************************************************)
\* the worker has nothing to do: it is blocked in select (state.go:302)
Quiescent == wpc = "select" /\ saveChan = <<>> /\ ~tickPending

\* The worker's steps take no time next to the seconds the code counts: time
\* passes while the worker is blocked.
TimeMayPass == Quiescent

\* time passes by d seconds, up to the next tick; a tick met goes to ticker.C
Advance(d) ==
    /\ TimeMayPass
    /\ now + d <= nextTick
    /\ now' = now + d
    /\ tickPending' = (tickPending \/ now + d = nextTick)
    /\ nextTick' = IF now + d = nextTick THEN nextTick + TickerPeriod ELSE nextTick
    /\ UNCHANGED <<data, saveChan, disk, saved, wpc, wpath, wcur, wbuf, wsrc, wsweep,
                   wfailed, wprev, last, lastWrite, prevWrite, mutTimes, wseen, durable, loaded, encSrc,
                   ops, faults, crashes>>
    /\ UNCHANGED <<resolverVars, notifyVars, ingestVars>>

\* a short wait: one second, or one second less than the debounce interval
ClockSteps == {1, DebounceInterval - 1}

AdvanceShort ==
    /\ fine < MaxFine
    /\ now < MutUntil
    /\ fine' = fine + 1
    /\ \E d \in ClockSteps : Advance(d)

AdvanceToTick ==
    /\ nextTick <= MaxTicks * TickerPeriod
    /\ UNCHANGED fine
    /\ Advance(nextTick - now)

IdleCall == [pc |-> "idle"]

\* the process is killed and started again: state.New (state.go:57-73) starts
\* from an empty m.data, an empty queue and a new worker; the files stay
Crash ==
    /\ crashes < MaxCrashes
    /\ crashes' = crashes + 1
    /\ data' = [ws \in Tenants |-> NoData]
    /\ saveChan' = <<>>
    /\ saved' = [ws \in Tenants |-> Unset]
    /\ wpc' = "select"
    /\ wpath' = "queue"
    /\ wsweep' = {}
    /\ wfailed' = FALSE
    /\ wbuf' = EmptyDoc
    /\ wsrc' = EmptySrc
    /\ tickPending' = FALSE
    /\ nextTick' = now + TickerPeriod
    /\ last' = NoOp
    /\ lastWrite' = [ws \in Tenants |-> Unset]
    /\ prevWrite' = [ws \in Tenants |-> Unset]
    /\ mutTimes' = [ws \in Tenants |-> <<>>]
    /\ wseen' = 0
    /\ durable' = [ws \in Tenants |-> 0]
    /\ loaded' = [ws \in Tenants |-> [exists |-> FALSE]]
    /\ ncall' = [c \in DOMAIN ncall |-> IdleCall]
    /\ UNCHANGED <<disk, wcur, wprev, now, encSrc, ops, faults, fine, calls, dmLog>>
    /\ UNCHANGED <<resolverVars, ingestVars>>

(***************************************************************************)
(* notify.Manager.NotifyUser (notify.go:56-90) with the accessor it starts *)
(* with, state.Manager.GetUserPreferences (state.go:76-108).  A call is a  *)
(* sequence of steps; what it has done so far is kept in ncall.            *)
(***************************************************************************)
Callers == {"c1"}

\* notify.go:93-117 - formatNotificationMessage
formatNotificationMessage(pr) ==
    [title |-> pr.Title, owner |-> pr.Owner, repo |-> pr.Repo, number |-> pr.Number,
     author |-> pr.Author,
     action |-> CASE pr.State = "broken_heart" -> "waiting for you to fix tests"
                  [] pr.State = "hourglass" -> "waiting for your review"
                  [] pr.State = "carpentry_saw" -> "waiting for you to address review feedback"
                  [] pr.State = "check" -> "approved and ready to merge"
                  [] OTHER -> "needs your attention"]

\* state.go:86-107 - the preferences of userID in the record in memory, or
\* the defaults
PrefsOf(ws, userID) ==
    IF data[ws].exists /\ userID \in DOMAIN data[ws].Users
    THEN data[ws].Users[userID]
    ELSE DefaultPrefs

\* notify.go:61 - the real-time gate
RealTimeOff_never(prefs) == FALSE
RealTimeOff(prefs) == ~prefs.RealTimeNotifications

\* notify.go:66 - time.Since(prefs.LastNotified) < prefs.ChannelNotifyDelay
TooSoon_never(prefs) == FALSE
TooSoon(prefs) ==
    ~prefs.LastNotified.zero /\ now - prefs.LastNotified.t < prefs.ChannelNotifyDelay

\* notify.go:61-69 - where NotifyUser goes once it holds the preferences
AfterPrefs(prefs) ==
    IF RealTimeOff(prefs) THEN "done"
    ELSE IF TooSoon(prefs) THEN "done"
    ELSE "presence"

\* the calls for userID that have returned after a presence answer other
\* than "active"
Deferred(userID) ==
    {d \in DOMAIN ncall : /\ ncall[d].pc = "done"
                          /\ ncall[d].user = userID
                          /\ ncall[d].answer \in {"away", "error"}}

\* what the steps of a call leave alone besides ncall
CallFrame ==
    /\ UNCHANGED <<saveChan, disk, saved, wpc, wpath, wcur, wbuf, wsrc, wsweep, wfailed,
                   wprev, now, nextTick, tickPending, lastWrite, prevWrite, wseen,
                   durable, encSrc, ops, faults, crashes, fine>>
    /\ UNCHANGED <<resolverVars, ingestVars>>

\* notify.go:56-58, state.go:76-84 - NotifyUser is called and GetUserPreferences
\* looks for the tenant under the read lock; a tenant in memory is read at once
NotifyUserCall(c, ws, userID, pr) ==
    /\ ncall[c].pc \in {"idle", "done"}
    /\ calls' = calls + 1
    /\ ncall' = [ncall EXCEPT ![c] =
                    [pc |-> IF data[ws].exists THEN AfterPrefs(PrefsOf(ws, userID)) ELSE "load",
                     ws |-> ws, user |-> userID, message |-> formatNotificationMessage(pr),
                     prefs |-> PrefsOf(ws, userID), readAt |-> now, dms |-> 0,
                     lookups |-> 0, sends |-> 0, touched |-> FALSE, answer |-> "",
                     err |-> FALSE,
                     follows |-> Deferred(userID)]]
    /\ UNCHANGED <<data, last, mutTimes, loaded, dmLog>>
    /\ CallFrame

\* state.go:248-255 - loadWorkspaceData: whatever snapshot is on disk replaces
\* the entry of the tenant in memory
GetPrefsLoad(c) ==
    /\ ncall[c].pc = "load"
    /\ LET ws == ncall[c].ws
           got == loadWorkspaceDataLocked(ws)
       IN  /\ data' = IF got.exists THEN [data EXCEPT ![ws] = got] ELSE data
           /\ loaded' = IF got.exists
                        THEN [loaded EXCEPT ![ws] = [exists |-> TRUE, got |-> got,
                                                     from |-> encSrc[ws]]]
                        ELSE loaded
    /\ ncall' = [ncall EXCEPT ![c].pc = "reread"]
    /\ UNCHANGED <<last, mutTimes, calls, dmLog>>
    /\ CallFrame

\* state.go:83-107 - the read lock is taken again and the preferences are read
GetPrefsReread(c) ==
    /\ ncall[c].pc = "reread"
    /\ LET prefs == PrefsOf(ncall[c].ws, ncall[c].user)
       IN  ncall' = [ncall EXCEPT ![c].prefs = prefs, ![c].readAt = now,
                                  ![c].pc = AfterPrefs(prefs)]
    /\ UNCHANGED <<data, last, mutTimes, loaded, calls, dmLog>>
    /\ CallFrame

\* slack.go:234-239 - what IsUserActive returns for the answer of the
\* presence lookup; an error counts as not active
IsUserActive_unlessAway(ans) == ans # "away"
IsUserActive(ans) == ans = "active"

\* notify.go:72-75 - the presence lookup and the gate on its answer
NotifyPresence(c) ==
    /\ ncall[c].pc = "presence"
    /\ \E ans \in {"active", "away", "error"} :
           ncall' = [ncall EXCEPT ![c].lookups = @ + 1, ![c].answer = ans,
                                  ![c].pc = IF IsUserActive(ans) THEN "send" ELSE "done"]
    /\ UNCHANGED <<data, last, mutTimes, loaded, calls, dmLog>>
    /\ CallFrame

\* notify.go:81-86 - where NotifyUser goes after SendDirectMessage: on to
\* UpdateLastNotified, or out with the error
AfterSend_always(delivered) == "touch"
AfterSend(delivered) == IF delivered THEN "touch" ELSE "done"

\* notify.go:81 - SendDirectMessage delivers the message
NotifySendOk(c) ==
    /\ ncall[c].pc = "send"
    /\ ncall' = [ncall EXCEPT ![c].sends = @ + 1, ![c].dms = @ + 1,
                              ![c].pc = AfterSend(TRUE)]
    /\ dmLog' = Append(dmLog, [user |-> ncall[c].user, t |-> now,
                                delay |-> ncall[c].prefs.ChannelNotifyDelay])
    /\ UNCHANGED <<data, last, mutTimes, loaded, calls>>
    /\ CallFrame

\* notify.go:81-83 - SendDirectMessage fails: the error is returned
NotifySendFail(c) ==
    /\ ncall[c].pc = "send"
    /\ ncall' = [ncall EXCEPT ![c].sends = @ + 1, ![c].err = TRUE,
                              ![c].pc = AfterSend(FALSE)]
    /\ UNCHANGED <<data, last, mutTimes, loaded, calls, dmLog>>
    /\ CallFrame

\* notify.go:86, state.go:203-221 - UpdateLastNotified at the end of the call
NotifyTouch(c) ==
    /\ ncall[c].pc = "touch"
    /\ data' = touchLastNotified(ncall[c].ws, ncall[c].user)
    /\ saveChan' = Enqueue(saveChan, ncall[c].ws)
    /\ ObserveMutation(ncall[c].ws,
                       [op |-> "UpdateLastNotified", ws |-> ncall[c].ws,
                        userID |-> ncall[c].user,
                        before |-> GetUserPreferences(ncall[c].ws, ncall[c].user)])
    /\ ncall' = [ncall EXCEPT ![c].touched = TRUE, ![c].pc = "done"]
    /\ UNCHANGED <<disk, saved, wpc, wpath, wcur, wbuf, wsrc, wsweep, wfailed, wprev,
                   now, nextTick, tickPending, lastWrite, prevWrite, wseen, durable,
                   encSrc, ops, faults, crashes, fine, calls, dmLog>>
    /\ UNCHANGED <<resolverVars, ingestVars>>

(***************************************************************************)
(* One call of the resolver on fetched signals.                            *)
(***************************************************************************)
Fetch(pr, checks, reviews) ==
    /\ ~rin.call
    /\ rin' = [call |-> TRUE, pr |-> pr, checks |-> checks, reviews |-> reviews]
    /\ UNCHANGED <<rout, storeVars, notifyVars, ingestVars>>

Resolve ==
    /\ rin.call
    /\ ~rout.call
    /\ rout' = [call |-> TRUE, result |-> GetPRState(rin.pr, rin.checks, rin.reviews)]
    /\ UNCHANGED <<rin, storeVars, notifyVars, ingestVars>>

(***************************************************************************)
(* Specifications.                                                         *)
(***************************************************************************)
Init ==
    /\ rin = [call |-> FALSE]
    /\ rout = [call |-> FALSE]
    /\ data = [ws \in Tenants |-> NoData]
    /\ saveChan = <<>>
    /\ disk = [p \in Paths |-> NoFile]
    /\ saved = [ws \in Tenants |-> Unset]
    /\ wpc = "select"
    /\ wpath = "queue"
    /\ wcur = "default"
    /\ wbuf = EmptyDoc
    /\ wsrc = EmptySrc
    /\ wsweep = {}
    /\ wfailed = FALSE
    /\ wprev = NoFile
    /\ now = 0
    /\ nextTick = TickerPeriod
    /\ tickPending = FALSE
    /\ ncall = [c \in {"c1", "c2"} |-> IdleCall]
    /\ calls = 0
    /\ dmLog = <<>>
    /\ ipc = "check"
    /\ iresult = "running"
    /\ attempt = 0
    /\ delays = <<>>
    /\ wsConn = "nil"
    /\ dials = 0
    /\ cancelled = FALSE
    /\ lastRead = "none"
    /\ handlers = <<>>
    /\ configs = EmptyMap
    /\ alive = TRUE
    /\ remote = [pr |-> TrackedPR, checks |-> <<>>, reviews |-> <<>>]
    /\ heap = EmptyMap
    /\ objId = EmptyMap
    /\ pingers = <<>>
    /\ nrun = "running"
    /\ last = NoOp
    /\ lastWrite = [ws \in Tenants |-> Unset]
    /\ prevWrite = [ws \in Tenants |-> Unset]
    /\ mutTimes = [ws \in Tenants |-> <<>>]
    /\ wseen = 0
    /\ durable = [ws \in Tenants |-> 0]
    /\ loaded = [ws \in Tenants |-> [exists |-> FALSE]]
    /\ encSrc = [ws \in Tenants |-> EmptySrc]
    /\ ops = 0
    /\ faults = 0
    /\ crashes = 0
    /\ fine = 0

Mutate ==
    /\ ops < MaxOps
    /\ \/ \E ws \in Tenants, u \in UserIDs, p \in PrefInputs : SetUserPreferences(ws, u, p)
       \/ \E ws \in Tenants, pr \in PRInputs : SetPRState(ws, pr)
       \/ \E ws \in Tenants, u \in UserIDs : UpdateLastNotified(ws, u)

WorkerStep ==
    \/ WorkerRecvSkip
    \/ WorkerRecvSave
    \/ WorkerTick
    \/ \E id \in Tenants : SweepSave(id)
    \/ \E id \in Tenants : SweepSkip(id)
    \/ SweepDone
    \/ SaveCreateOk
    \/ SaveEncodeUsers
    \/ SaveEncodePRs
    \/ SaveEncodeUserPRsOk
    \/ SaveGzCloseOk
    \/ SaveFileCloseOk
    \/ SaveRenameOk
    \/ SaveStamp

WorkerFault ==
    \/ SaveCreateFail
    \/ SaveEncodeFail
    \/ SaveGzCloseFail
    \/ SaveFileCloseFail
    \/ SaveRenameFail

\* the steps of the worker that serve the queue
QueueStep ==
    \/ WorkerRecvSkip
    \/ WorkerRecvSave
    \/ SaveCreateOk
    \/ SaveEncodeUsers
    \/ SaveEncodePRs
    \/ SaveEncodeUserPRsOk
    \/ SaveGzCloseOk
    \/ SaveFileCloseOk
    \/ SaveRenameOk
    \/ SaveStamp

\* the store and its save worker under I/O faults and process restarts, at
\* one instant of time
Next ==
    \/ Mutate
    \/ QueueStep
    \/ WorkerFault
    \/ Crash

Spec == Init /\ [][Next]_vars

\* PR updates of the tenants, issued in the first MutUntil seconds
MutateTimed ==
    /\ ops < MaxOps
    /\ now <= MutUntil
    /\ \E ws \in Tenants :
           SetPRState(ws, MakePR(<<"org", "xapp", 1>>, GetPRState(OpenPR, <<>>, <<>>)))

\* the store and its save worker as time passes, with every write succeeding
NextTimed ==
    \/ MutateTimed
    \/ WorkerStep
    \/ AdvanceShort
    \/ AdvanceToTick

SpecTimed == Init /\ [][NextTimed]_vars

\* settings updates next to the calls of NotifyUser
MutateNotify ==
    /\ ops < MaxBurst
    /\ \E ws \in Tenants, u \in UserIDs, p \in PrefInputs : SetUserPreferences(ws, u, p)

NotifyStep ==
    \/ /\ calls < MaxCalls
       /\ \E c \in Callers, ws \in Tenants, u \in UserIDs, r \in Resolutions :
              NotifyUserCall(c, ws, u, MakePR(<<"org", "xapp", 1>>, r))
    \/ \E c \in Callers : GetPrefsLoad(c)
    \/ \E c \in Callers : GetPrefsReread(c)
    \/ \E c \in Callers : NotifyPresence(c)
    \/ \E c \in Callers : NotifySendOk(c)
    \/ \E c \in Callers : NotifySendFail(c)
    \/ \E c \in Callers : NotifyTouch(c)

\* NotifyUser calls next to settings updates, the save worker and restarts
NextNotify ==
    \/ MutateNotify
    \/ NotifyStep
    \/ QueueStep
    \/ Crash

SpecNotify == Init /\ [][NextNotify]_vars

\* item updates of the tenant the events are filed under
MutateLoad ==
    /\ ops < MaxBurst
    /\ \E tr \in PRTriples :
           SetPRState("default", MakePR(tr, GetPRState(OpenPR, <<>>, <<>>)))

\* the steps of NotifyUser calls for a user of that tenant
LoadStep ==
    \/ /\ calls < MaxCalls
       /\ \E c \in Callers, u \in UserIDs :
              NotifyUserCall(c, "default", u,
                             MakePR(<<"org", "xapp", 1>>, GetPRState(OpenPR, <<>>, <<>>)))
    \/ \E c \in Callers : GetPrefsLoad(c)
    \/ \E c \in Callers : GetPrefsReread(c)
    \/ \E c \in Callers : NotifyPresence(c)
    \/ \E c \in Callers : NotifySendOk(c)
    \/ \E c \in Callers : NotifySendFail(c)
    \/ \E c \in Callers : NotifyTouch(c)

\* item updates next to the lazy loads of GetUserPreferences, the save
\* worker and restarts
NextLoad ==
    \/ MutateLoad
    \/ LoadStep
    \/ QueueStep
    \/ Crash

SpecLoad == Init /\ [][NextLoad]_vars

\* notify.go:283 - events are handled in goroutines of their own, so calls of
\* NotifyUser may run side by side
GateCallers == {"c1", "c2"}

\* notify.go:455 - the tenant every handled event is filed under
GateTenants == {"default"}

\* minutes-long waits between and during the calls
LongWaits == {10 * 60, 20 * 60}

\* time passes while no save worker is looked at: only the clock and the
\* ticker move
AdvanceLong ==
    /\ fine < MaxWaits
    /\ fine' = fine + 1
    /\ \E d \in LongWaits :
           /\ now' = now + d
           /\ nextTick' = (now + d) - ((now + d) % TickerPeriod) + TickerPeriod
    /\ tickPending' = TRUE
    /\ UNCHANGED <<data, saveChan, disk, saved, wpc, wpath, wcur, wbuf, wsrc, wsweep,
                   wfailed, wprev, last, lastWrite, prevWrite, mutTimes, wseen, durable,
                   loaded, encSrc, ops, faults, crashes>>
    /\ UNCHANGED <<resolverVars, notifyVars, ingestVars>>

\* the settings a user chooses: real-time delivery with a delay
GatePrefs ==
    {[DefaultPrefs EXCEPT !.Timezone = "UTC"],
     [DefaultPrefs EXCEPT !.ChannelNotifyDelay = 15 * 60]}

\* a settings update: the caller reads the record, changes the settings and
\* stores the record with the last-notified time it read
MutateGate ==
    /\ ops < MaxBurst
    /\ \E ws \in GateTenants, u \in UserIDs, p \in GatePrefs :
           SetUserPreferences(ws, u, [p EXCEPT !.LastNotified =
                                                 GetUserPreferences(ws, u).LastNotified])

GateStep ==
    \/ /\ calls < MaxGateCalls
       /\ \E c \in GateCallers, ws \in GateTenants, u \in UserIDs :
              NotifyUserCall(c, ws, u, MakePR(<<"org", "xapp", 1>>,
                                               GetPRState(OpenPR, <<>>, <<>>)))
    \/ \E c \in GateCallers : GetPrefsLoad(c)
    \/ \E c \in GateCallers : GetPrefsReread(c)
    \/ \E c \in GateCallers : NotifyPresence(c)
    \/ \E c \in GateCallers : NotifySendOk(c)
    \/ \E c \in GateCallers : NotifySendFail(c)
    \/ \E c \in GateCallers : NotifyTouch(c)

\* concurrent NotifyUser calls next to settings updates while time passes
NextGate ==
    \/ MutateGate
    \/ GateStep
    \/ AdvanceLong

SpecGate == Init /\ [][NextGate]_vars

(***************************************************************************)
(* bot.Coordinator.Run (notify.go:203-290): the connect loop with its      *)
(* retries, the read loop, and one goroutine per decoded message running   *)
(* processEventSafely (notify.go:360-370) and processEvent                 *)
(* (notify.go:373-415).  A repository identifier is a sequence of          *)
(* characters.                                                             *)
(***************************************************************************)
RepoIds ==
    {<<"o", "/", "x">>, <<"o", "x">>, <<"o", "/", "x", "/", "y">>, <<"/", "x">>,
     <<"o", "/">>, <<>>}

\* notify.go:353-357 - the decoded messages; the payload of a pull_request
\* event is for item 1, action "opened"
Messages ==
    [event : {"pull_request"}, action : {"opened"}, repo : RepoIds]
        \cup {[event |-> "push", action |-> "", repo |-> <<"o", "/", "x">>]}

RECURSIVE Power2(_)
Power2(n) == IF n = 0 THEN 1 ELSE 2 * Power2(n - 1)

\* notify.go:246-248 - retry.BackOffDelay under retry.MaxDelay: the delay
\* slept after the failure of attempt n (counted from 0)
BackOffDelay_uncapped(n) == RetryDelay * Power2(n)
BackOffDelay(n) ==
    IF RetryDelay * Power2(n) > MaxRetryDelay THEN MaxRetryDelay
    ELSE RetryDelay * Power2(n)

\* the characters of seq as one string
RECURSIVE Str(_)
Str(seq) == IF seq = <<>> THEN "" ELSE Head(seq) \o Str(Tail(seq))

\* notify.go:377 - strings.Split(msg.Repo, "/"): the segments between the
\* separators, empty ones included
RECURSIVE SplitFrom(_, _, _)
SplitFrom(id, parts, cur) ==
    IF id = <<>> THEN Append(parts, cur)
    ELSE IF Head(id) = "/" THEN SplitFrom(Tail(id), Append(parts, cur), "")
    ELSE SplitFrom(Tail(id), parts, cur \o Head(id))

Split(id) == SplitFrom(id, <<>>, "")

\* notify.go:378-388 - the two tests processEvent makes on the segments
ValidParts_lenOnly(parts) == Len(parts) = 2
ValidParts(parts) == Len(parts) = 2 /\ parts[1] # "" /\ parts[2] # ""

\* notify.go:362-367 - the deferred recover of processEventSafely: what the
\* goroutine gets back for each way processEvent can end
processEventSafely_noRecover(outcome) == outcome
processEventSafely(outcome) == IF outcome = "panic" THEN "error" ELSE outcome

\* notify.go:283 - the goroutine started for msg
NewHandler(msg) ==
    [msg |-> msg, pc |-> "start", owner |-> "", repo |-> "", ref |-> 0,
     result |-> "", panicked |-> FALSE, loads |-> 0, fetches |-> 0, posts |-> 0,
     mutations |-> 0, replies |-> 0, overlapped |-> FALSE, fetchFailed |-> FALSE, seenThread |-> "",
     thread |-> ""]

\* the goroutine of handler h ends with what processEvent did
Ended(h, outcome) ==
    [h EXCEPT !.pc = IF processEventSafely(outcome) = "panic" THEN "killed" ELSE "done",
              !.result = processEventSafely(outcome),
              !.panicked = (outcome = "panic")]

\* a panic that leaves a goroutine ends the process with all its goroutines
Killed(hs) ==
    [i \in DOMAIN hs |-> IF hs[i].pc = "done" THEN hs[i] ELSE [hs[i] EXCEPT !.pc = "killed"]]

\* what the steps of Run and of the handlers leave alone
IngestFrame ==
    /\ UNCHANGED <<resolverVars, notifyVars, nrun>>

StoreFrame == UNCHANGED storeVars

HeapFrame == UNCHANGED <<remote, heap, objId, pingers>>

\* notify.go:209-219, 222 - the top of the outer loop: stop when the context
\* is done, else start retry.Do
RunCheck ==
    /\ alive /\ ipc = "check"
    /\ IF cancelled
       THEN /\ ipc' = "stopped"
            /\ iresult' = "cancelled"
            /\ wsConn' = IF wsConn = "nil" THEN "nil" ELSE "closed"
            /\ UNCHANGED <<attempt, delays>>
       ELSE /\ ipc' = "connecting"
            /\ attempt' = 0
            /\ delays' = <<>>
            /\ UNCHANGED <<iresult, wsConn>>
    /\ UNCHANGED <<dials, cancelled, lastRead, handlers, configs, alive>>
    /\ StoreFrame /\ IngestFrame /\ HeapFrame

\* notify.go:223-242, 293-350 - an attempt of retry.Do that connects; the
\* connection gets its keepalive goroutine (notify.go:331-347)
ConnectOk ==
    /\ alive /\ ipc = "connecting"
    /\ ~cancelled
    /\ dials < MaxDials
    /\ wsConn' = "open"
    /\ dials' = dials + 1
    /\ ipc' = "connected"
    /\ pingers' = Append(pingers, "running")
    /\ UNCHANGED <<iresult, attempt, delays, cancelled, lastRead, handlers, configs, alive,
                   remote, heap, objId>>
    /\ StoreFrame /\ IngestFrame

\* notify.go:245 - retry.Attempts(10): retry.Do gives up when the n-th
\* attempt of the call has failed
GaveUp_never(n) == FALSE
GaveUp(n) == n = Attempts

\* notify.go:223-254 - an attempt that fails: retry.Do sleeps and tries
\* again, or gives up after the last attempt and Run returns the error; the
\* error group of main cancels its context when the function it runs
\* returns an error (main.go:91, 121-123)
ConnectFail ==
    /\ alive /\ ipc = "connecting"
    /\ wsConn' = IF wsConn = "nil" THEN "nil" ELSE "closed"
    /\ attempt' = attempt + 1
    /\ IF GaveUp(attempt + 1)
       THEN /\ ipc' = "stopped"
            /\ iresult' = "connect failed"
            /\ cancelled' = TRUE
            /\ UNCHANGED delays
       ELSE /\ delays' = Append(delays, BackOffDelay(attempt))
            /\ UNCHANGED <<ipc, iresult, cancelled>>
    /\ UNCHANGED <<dials, lastRead, handlers, configs, alive>>
    /\ StoreFrame /\ IngestFrame /\ HeapFrame

\* notify.go:250-254 - retry.Context(ctx): a done context ends retry.Do with
\* an error
ConnectAbort ==
    /\ alive /\ ipc = "connecting"
    /\ cancelled
    /\ ipc' = "stopped"
    /\ iresult' = "connect failed"
    /\ UNCHANGED <<attempt, delays, wsConn, dials, cancelled, lastRead, handlers,
                   configs, alive>>
    /\ StoreFrame /\ IngestFrame /\ HeapFrame

\* notify.go:258-262 - the top of the read loop sees the context done
ReadCancelled ==
    /\ alive /\ ipc = "connected"
    /\ cancelled
    /\ ipc' = "stopped"
    /\ iresult' = "cancelled"
    /\ UNCHANGED <<attempt, delays, wsConn, dials, cancelled, lastRead, handlers,
                   configs, alive>>
    /\ StoreFrame /\ IngestFrame /\ HeapFrame

\* what GitHub holds when the event msg is sent: a check event reports a
\* failed check run, a review event an approving review on a fixed commit
\* whose check run passed
Upstream(msg, r) ==
    CASE msg.event \in {"check_run", "check_suite"} -> [r EXCEPT !.checks = <<FailedCheck>>]
      [] msg.event = "pull_request_review" ->
             [r EXCEPT !.checks = <<PassedCheck>>, !.reviews = <<"APPROVED">>]
      [] OTHER -> r

\* whether a handler is still running
Busy == \E j \in DOMAIN handlers : handlers[j].pc \notin {"done", "killed"}

\* notify.go:269, 282-287 - ReadJSON decodes a message and a goroutine is
\* started for it
Receive(msg) ==
    /\ alive /\ ipc = "connected"
    /\ lastRead' = "message"
    /\ handlers' = Append(handlers, [NewHandler(msg) EXCEPT !.overlapped = Busy])
    /\ remote' = Upstream(msg, remote)
    /\ UNCHANGED <<ipc, iresult, attempt, delays, wsConn, dials, cancelled, configs, alive,
                   heap, objId, pingers>>
    /\ StoreFrame /\ IngestFrame

ReadMessage(msg) ==
    /\ Len(handlers) < MaxEvents
    /\ Receive(msg)

\* notify.go:270-279 - where Run goes on an error of ReadJSON: it returns nil
\* on a close with code 1000 and breaks to the outer loop on anything else
AfterReadError_alwaysReconnect(kind) == "check"
AfterReadError(kind) == IF kind = "normal closure" THEN "stopped" ELSE "check"

\* notify.go:270-273 - ReadJSON returns a close error with code 1000
ReadClosedNormal ==
    /\ alive /\ ipc = "connected"
    /\ lastRead' = "normal closure"
    /\ wsConn' = "broken"
    /\ ipc' = AfterReadError("normal closure")
    /\ iresult' = IF AfterReadError("normal closure") = "stopped" THEN "nil" ELSE iresult
    /\ UNCHANGED <<attempt, delays, dials, cancelled, handlers, configs, alive>>
    /\ StoreFrame /\ IngestFrame /\ HeapFrame

\* the other errors ReadJSON returns: a close with another code, a network
\* error, the 60 s read deadline, a frame that is not a JSON message
ReadFailures == {"going away", "abnormal closure", "read error", "deadline", "bad json"}

\* notify.go:274-279 - any other error of ReadJSON: break to the outer loop
ReadFail(kind) ==
    /\ alive /\ ipc = "connected"
    /\ lastRead' = kind
    /\ wsConn' = "broken"
    /\ ipc' = AfterReadError(kind)
    /\ iresult' = IF AfterReadError(kind) = "stopped" THEN "nil" ELSE iresult
    /\ UNCHANGED <<attempt, delays, dials, cancelled, handlers, configs, alive>>
    /\ StoreFrame /\ IngestFrame /\ HeapFrame

\* the context of Run is cancelled
Cancel ==
    /\ alive /\ ~cancelled
    /\ ipc # "stopped"
    /\ cancelled' = TRUE
    /\ UNCHANGED <<ipc, iresult, attempt, delays, wsConn, dials, lastRead, handlers,
                   configs, alive>>
    /\ StoreFrame /\ IngestFrame /\ HeapFrame

\* notify.go:377-388 - processEvent splits the repository identifier and
\* returns an error unless it has two non-empty segments
HandlerParse(i) ==
    /\ alive /\ handlers[i].pc = "start"
    /\ LET parts == Split(handlers[i].msg.repo)
       IN  handlers' = [handlers EXCEPT ![i] =
                           IF ValidParts(parts)
                           THEN [@ EXCEPT !.pc = "config", !.owner = parts[1],
                                          !.repo = parts[2]]
                           ELSE Ended(@, "error")]
    /\ UNCHANGED <<ipc, iresult, attempt, delays, wsConn, dials, cancelled, lastRead,
                   configs, alive>>
    /\ StoreFrame /\ IngestFrame /\ HeapFrame

\* the channel lists a loaded configuration can hold for the repository
ChannelLists == {<<>>, <<"C1">>}

\* notify.go:391-395, config.go:59-151 - the configuration of the
\* organisation is loaded unless it is there; a failed load stores an empty one
HandlerConfig(i) ==
    /\ alive /\ handlers[i].pc = "config"
    /\ IF handlers[i].owner \in DOMAIN configs
       THEN /\ handlers' = [handlers EXCEPT ![i].pc = "event"]
            /\ UNCHANGED configs
       ELSE /\ handlers' = [handlers EXCEPT ![i].pc = "event", ![i].loads = @ + 1]
            /\ \E channels \in ChannelLists :
                   configs' = MapPut(configs, handlers[i].owner, channels)
    /\ UNCHANGED <<ipc, iresult, attempt, delays, wsConn, dials, cancelled, lastRead, alive>>
    /\ StoreFrame /\ IngestFrame /\ HeapFrame

\* config.go:162-175 - GetChannelsForRepo
GetChannelsForRepo(org) == IF org \in DOMAIN configs THEN configs[org] ELSE <<>>

\* notify.go:458-473 - the record handlePullRequestEvent builds from the
\* fetched resolution r, with the thread of the stored item if there is one
BuildPR(owner, repo, r, existing) ==
    [Owner |-> owner, Repo |-> repo, Number |-> 1, Title |-> "fix", Author |-> "carol",
     State |-> r.state, BlockedOn |-> r.blockedOn, Reviewers |-> <<>>,
     ThreadTS |-> IF existing = {} THEN "" ELSE (CHOOSE e \in existing : TRUE).ThreadTS,
     ChannelID |-> IF existing = {} THEN "" ELSE (CHOOSE e \in existing : TRUE).ChannelID,
     LastUpdated |-> TimeAt(now), LastNotified |-> ZeroTime]

\* notify.go:398-412 - the switch of processEvent on the event type:
\* check_run and check_suite go to handleCheckEvent, which only logs
\* (notify.go:581-585), and every other type but the two below does nothing here
handleCheckEvent_asPullRequest == "pull_request"
handleCheckEvent == "nothing"

Dispatch_checksRefetch(event) ==
    CASE event = "pull_request" -> "pull_request"
      [] event \in {"pull_request_review", "check_run", "check_suite"} -> "review"
      [] OTHER -> "nothing"
Dispatch(event) ==
    CASE event = "pull_request" -> "pull_request"
      [] event = "pull_request_review" -> "review"
      [] event \in {"check_run", "check_suite"} -> handleCheckEvent
      [] OTHER -> "nothing"

\* notify.go:398-412, 418-473 - the switch on the event type; for a
\* pull_request event the channels are looked up, the state is fetched, a new
\* record is allocated and the stored item is looked up
HandlerEvent(i) ==
    /\ alive /\ handlers[i].pc = "event"
    /\ LET h == handlers[i]
       IN  CASE Dispatch(h.msg.event) = "review" ->
                  /\ handlers' = [handlers EXCEPT ![i] = [@ EXCEPT !.pc = "review"]]
                  /\ UNCHANGED heap
             [] Dispatch(h.msg.event) = "nothing" \/ GetChannelsForRepo(h.owner) = <<>> ->
                  /\ handlers' = [handlers EXCEPT ![i] = Ended(@, "nil")]
                  /\ UNCHANGED heap
             [] OTHER ->
                  \/ /\ handlers' = [handlers EXCEPT ![i] =
                            Ended([@ EXCEPT !.fetches = @ + 1, !.fetchFailed = TRUE], "nil")]
                     /\ UNCHANGED heap
                  \/ /\ handlers' = [handlers EXCEPT ![i] =
                            [@ EXCEPT !.fetches = @ + 1, !.pc = "thread", !.ref = i]]
                     /\ heap' = MapPut(heap, i,
                                   BuildPR(h.owner, h.repo,
                                           GetPRState(remote.pr, remote.checks, remote.reviews),
                                           StoreGetPRState("default", h.owner, h.repo, 1)))
    /\ UNCHANGED <<ipc, iresult, attempt, delays, wsConn, dials, cancelled, lastRead,
                   configs, alive, remote, objId, pingers>>
    /\ StoreFrame /\ IngestFrame

\* notify.go:596-607 - the timestamp PostThread returns for the thread that
\* handler i creates: Slack gives every message its own
NewThreadTS(i) == "1712.0" \o ToString(i)

\* notify.go:476-491, 596-633 - action "opened": an item without a thread
\* gets the thread ts unless the post fails (ts = "")
WithThread(pr, ts) ==
    IF pr.ThreadTS = "" /\ ts # ""
    THEN [pr EXCEPT !.ThreadTS = ts, !.ChannelID = "C1"]
    ELSE pr

\* the thread of the item stored under key in the default workspace, "" if
\* there is none
StoredThread(key) ==
    IF data["default"].exists /\ key \in DOMAIN data["default"].PRs
    THEN data["default"].PRs[key].ThreadTS
    ELSE ""

\* notify.go:477-478 - the actions on which a thread is created
Opens(action) == action \in {"opened", "reopened"}

\* notify.go:476-513 - on "opened" and "reopened" the thread is created if
\* there is none; on every action the handler's record is stored: the
\* store's map now points at it.  The reaction the other actions set on an
\* existing thread is kept by Slack, not by the program.
HandlerStore(i) ==
    /\ alive /\ handlers[i].pc = "thread"
    /\ LET h == handlers[i]
           pr == heap[h.ref]
           key == PRKey(pr.Owner, pr.Repo, pr.Number)
       IN  \E ts \in IF Opens(h.msg.action) THEN {"", NewThreadTS(i)} ELSE {""} :
               /\ storePRState("default", WithThread(pr, ts))
               /\ heap' = [heap EXCEPT ![h.ref] = WithThread(pr, ts)]
               /\ objId' = MapPut(objId, key, h.ref)
               /\ handlers' = [handlers EXCEPT ![i] =
                      Ended([@ EXCEPT !.mutations = @ + 1,
                                      !.posts = IF pr.ThreadTS = "" /\ Opens(h.msg.action)
                                                THEN @ + 1 ELSE @,
                                      !.seenThread = StoredThread(key),
                                      !.thread = IF pr.ThreadTS = "" THEN ts ELSE ""],
                            "nil")]
    /\ UNCHANGED <<ipc, iresult, attempt, delays, wsConn, dials, cancelled, lastRead,
                   configs, alive, remote, pingers>>
    /\ UNCHANGED ops
    /\ IngestFrame

\* notify.go:544-560 - handlePullRequestReviewEvent looks the item up: GetPRState
\* of the store returns the pointer its map holds (state.go:141); without an
\* item the handler returns; with a thread the review is posted to it
ReviewLookup(i) ==
    /\ alive /\ handlers[i].pc = "review"
    /\ LET h == handlers[i]
           key == PRKey(h.owner, h.repo, 1)
       IN  IF StoreGetPRState("default", h.owner, h.repo, 1) = {}
           THEN handlers' = [handlers EXCEPT ![i] = Ended(@, "nil")]
           ELSE handlers' = [handlers EXCEPT ![i] =
                    [@ EXCEPT !.pc = "looked", !.ref = objId[key],
                              !.replies = IF StoredThread(key) # "" THEN @ + 1 ELSE @]]
    /\ UNCHANGED <<ipc, iresult, attempt, delays, wsConn, dials, cancelled, lastRead,
                   configs, alive>>
    /\ StoreFrame /\ IngestFrame /\ HeapFrame

\* notify.go:563-564 - github.GetPRState fails or returns; on failure nothing
\* more happens
ReviewFetch(i) ==
    /\ alive /\ handlers[i].pc = "looked"
    /\ \/ handlers' = [handlers EXCEPT ![i] =
              Ended([@ EXCEPT !.fetches = @ + 1, !.fetchFailed = TRUE], "nil")]
       \/ handlers' = [handlers EXCEPT ![i] = [@ EXCEPT !.fetches = @ + 1, !.pc = "fetched"]]
    /\ UNCHANGED <<ipc, iresult, attempt, delays, wsConn, dials, cancelled, lastRead,
                   configs, alive>>
    /\ StoreFrame /\ IngestFrame /\ HeapFrame

\* notify.go:565-567 - what the assignments pr.State = ..., pr.BlockedOn = ...,
\* pr.LastUpdated = ... make of the record the handler points at
Written(pr, r) ==
    [pr EXCEPT !.State = r.state, !.BlockedOn = r.blockedOn, !.LastUpdated = TimeAt(now)]

\* notify.go:565-567 - the handler writes the fetched resolution through its
\* pointer, outside the store's lock: when the store's map still points at
\* the same object, the stored item changes with it
ReviewWrite(i) ==
    /\ alive /\ handlers[i].pc = "fetched"
    /\ LET h == handlers[i]
           pr == heap[h.ref]
           key == PRKey(pr.Owner, pr.Repo, pr.Number)
           r == GetPRState(remote.pr, remote.checks, remote.reviews)
       IN  /\ heap' = [heap EXCEPT ![h.ref] = Written(pr, r)]
           /\ data' = IF objId[key] = h.ref
                      THEN [data EXCEPT !["default"].PRs[key] = Written(pr, r)]
                      ELSE data
    /\ handlers' = [handlers EXCEPT ![i] = [@ EXCEPT !.pc = "written"]]
    /\ UNCHANGED <<saveChan, disk, saved, wpc, wpath, wcur, wbuf, wsrc, wsweep,
                   wfailed, wprev, now, nextTick, tickPending, last, lastWrite,
                   prevWrite, mutTimes, wseen, durable, loaded, encSrc, ops, faults,
                   crashes, fine>>
    /\ UNCHANGED <<ipc, iresult, attempt, delays, wsConn, dials, cancelled, lastRead,
                   configs, alive, remote, objId, pingers>>
    /\ IngestFrame

\* notify.go:569-576 - SetPRState with the record the handler points at
ReviewStore(i) ==
    /\ alive /\ handlers[i].pc = "written"
    /\ LET h == handlers[i]
           pr == heap[h.ref]
       IN  /\ storePRState("default", pr)
           /\ objId' = MapPut(objId, PRKey(pr.Owner, pr.Repo, pr.Number), h.ref)
    /\ handlers' = [handlers EXCEPT ![i] = Ended([@ EXCEPT !.mutations = @ + 1], "nil")]
    /\ UNCHANGED <<ipc, iresult, attempt, delays, wsConn, dials, cancelled, lastRead,
                   configs, alive, remote, heap, pingers>>
    /\ UNCHANGED ops
    /\ IngestFrame

\* how many handlers have panicked
Panics == Cardinality({i \in DOMAIN handlers : handlers[i].panicked})

\* notify.go:360-370 - processEvent panics in handler i: the deferred recover
\* of processEventSafely turns the panic into the returned error
HandlerPanic(i) ==
    /\ alive /\ handlers[i].pc \in {"config", "event", "thread", "review", "looked", "fetched", "written"}
    /\ Panics < MaxPanics
    /\ IF Ended(handlers[i], "panic").pc = "killed"
       THEN /\ handlers' = Killed([handlers EXCEPT ![i] = Ended(@, "panic")])
            /\ alive' = FALSE
            /\ ipc' = "stopped"
            /\ iresult' = "crashed"
       ELSE /\ handlers' = [handlers EXCEPT ![i] = Ended(@, "panic")]
            /\ UNCHANGED <<alive, ipc, iresult>>
    /\ UNCHANGED <<attempt, delays, wsConn, dials, cancelled, lastRead, configs>>
    /\ StoreFrame /\ IngestFrame /\ HeapFrame

RunStep ==
    \/ RunCheck
    \/ ConnectOk
    \/ ConnectFail
    \/ ConnectAbort
    \/ ReadCancelled
    \/ \E msg \in Messages : ReadMessage(msg)
    \/ ReadClosedNormal
    \/ \E kind \in ReadFailures : ReadFail(kind)

HandlerStep ==
    \/ \E i \in DOMAIN handlers : HandlerParse(i)
    \/ \E i \in DOMAIN handlers : HandlerConfig(i)
    \/ \E i \in DOMAIN handlers : HandlerEvent(i)
    \/ \E i \in DOMAIN handlers : HandlerStore(i)
    \/ \E i \in DOMAIN handlers : HandlerPanic(i)

ReviewStep ==
    \/ \E i \in DOMAIN handlers : ReviewLookup(i)
    \/ \E i \in DOMAIN handlers : ReviewFetch(i)
    \/ \E i \in DOMAIN handlers : ReviewWrite(i)
    \/ \E i \in DOMAIN handlers : ReviewStore(i)

\* the ingestion loop, its handlers and the cancellation of its context
NextIngest ==
    \/ RunStep
    \/ HandlerStep
    \/ Cancel

SpecIngest == Init /\ [][NextIngest]_vars

\* the events about one tracked pull request of a configured organisation
TrackMessages ==
    {[event |-> "pull_request", action |-> "opened", repo |-> <<"o", "/", "x">>],
     [event |-> "check_run", action |-> "completed", repo |-> <<"o", "/", "x">>],
     [event |-> "pull_request_review", action |-> "submitted", repo |-> <<"o", "/", "x">>]}

TrackRead ==
    /\ Len(handlers) < MaxTrackEvents
    /\ \E msg \in TrackMessages : Receive(msg)

\* the ingestion loop on a connection that stays up, with the handlers of
\* pull request, check and review events
NextTrack ==
    \/ RunCheck
    \/ ConnectOk
    \/ TrackRead
    \/ HandlerStep
    \/ ReviewStep

SpecTrack == Init /\ [][NextTrack]_vars

\* notify.go:331-347 - a keepalive goroutine returns when its write of a
\* ping fails; a ping that is written changes nothing
PingFail(k) ==
    /\ alive /\ pingers[k] = "running"
    /\ pingers' = [pingers EXCEPT ![k] = "write failed"]
    /\ UNCHANGED <<ipc, iresult, attempt, delays, wsConn, dials, cancelled, lastRead,
                   handlers, configs, alive, remote, heap, objId>>
    /\ StoreFrame /\ IngestFrame

\* notify.go:343-344 - a keepalive goroutine returns on ctx.Done
PingCancelled(k) ==
    /\ alive /\ pingers[k] = "running"
    /\ cancelled
    /\ pingers' = [pingers EXCEPT ![k] = "cancelled"]
    /\ UNCHANGED <<ipc, iresult, attempt, delays, wsConn, dials, cancelled, lastRead,
                   handlers, configs, alive, remote, heap, objId>>
    /\ StoreFrame /\ IngestFrame

\* notify.go:476-508 - the actions of a pull_request event the handler names
PRActions == {"opened", "reopened", "closed", "synchronize", "edited"}

\* the events about one pull request of a configured organisation, with
\* every action of a pull_request event
CreateMessages ==
    [event : {"pull_request"}, action : PRActions, repo : {<<"o", "/", "x">>}]
        \cup {[event |-> "check_run", action |-> "completed", repo |-> <<"o", "/", "x">>],
              [event |-> "pull_request_review", action |-> "submitted",
               repo |-> <<"o", "/", "x">>]}

CreateRead ==
    /\ Len(handlers) < MaxCreateEvents
    /\ \E msg \in CreateMessages : Receive(msg)

\* the ingestion loop on a connection that stays up, with events of every
\* kind and action about one pull request
NextCreate ==
    \/ RunCheck
    \/ ConnectOk
    \/ CreateRead
    \/ HandlerStep
    \/ ReviewStep

SpecCreate == Init /\ [][NextCreate]_vars

\* notify.go:28-40 - notify.Manager.Run returns ctx.Err() on ctx.Done; a
\* tick calls checkNotifications, which changes nothing (notify.go:43-52)
NotifierStop ==
    /\ alive /\ nrun \in {"running", "waiting"}
    /\ cancelled
    /\ nrun' = "stopped"
    /\ UNCHANGED <<resolverVars, notifyVars>>
    /\ UNCHANGED <<ipc, iresult, attempt, delays, wsConn, dials, cancelled, lastRead,
                   handlers, configs, alive>>
    /\ StoreFrame /\ HeapFrame

\* main.go:27-42 - the signal handler cancels the context, whatever the
\* tasks are doing
Shutdown ==
    /\ alive /\ ~cancelled
    /\ cancelled' = TRUE
    /\ UNCHANGED <<ipc, iresult, attempt, delays, wsConn, dials, lastRead, handlers,
                   configs, alive>>
    /\ StoreFrame /\ IngestFrame /\ HeapFrame

PingStep == \E k \in DOMAIN pingers : PingFail(k)

PingStop == \E k \in DOMAIN pingers : PingCancelled(k)

\* the steps of Coordinator.Run without its handlers
LoopStep ==
    \/ RunCheck
    \/ ConnectOk
    \/ ConnectFail
    \/ ConnectAbort
    \/ ReadCancelled
    \/ ReadClosedNormal
    \/ \E kind \in ReadFailures : ReadFail(kind)

\* the long-lived tasks of the process and the cancellation of their context
NextShutdown ==
    \/ LoopStep
    \/ PingStep
    \/ PingStop
    \/ NotifierStop
    \/ MutateLoad
    \/ QueueStep
    \/ Shutdown

\* every task that can take a step takes one in the end; saveWorker
\* (state.go:296-328) has the case of the queue and the case of the ticker
\* in its for-select and no case that returns
SpecShutdown ==
    /\ Init /\ [][NextShutdown]_vars
    /\ WF_vars(LoopStep)
    /\ WF_vars(PingStop)
    /\ WF_vars(NotifierStop)
    /\ WF_vars(QueueStep)

\* notify.go:35-37 - the one-minute ticker of notify.Manager.Run fires
NotifierTick ==
    /\ alive /\ nrun \in {"running", "waiting"}
    /\ nrun' = "checking"
    /\ UNCHANGED <<resolverVars, notifyVars>>
    /\ UNCHANGED <<ipc, iresult, attempt, delays, wsConn, dials, cancelled, lastRead,
                   handlers, configs, alive>>
    /\ StoreFrame /\ HeapFrame

\* notify.go:43-53, 120-133 - checkNotifications returns: it logs and sends
\* nothing, and nothing calls CheckDailyReminders, which only logs as well;
\* Run goes back to waiting for the ticker
NotifierChecked ==
    /\ alive /\ nrun = "checking"
    /\ nrun' = "waiting"
    /\ UNCHANGED <<resolverVars, notifyVars>>
    /\ UNCHANGED <<ipc, iresult, attempt, delays, wsConn, dials, cancelled, lastRead,
                   handlers, configs, alive>>
    /\ StoreFrame /\ HeapFrame

\* the scheduler of the notifier, with settings updates, as minutes pass
NextReminder ==
    \/ MutateGate
    \/ AdvanceLong
    \/ NotifierTick
    \/ NotifierChecked

SpecReminder == Init /\ [][NextReminder]_vars

(***************************************************************************)
(* Remote calls of github.Client (main.go) and slack.Client (slack.go).    *)
(***************************************************************************)
\* main.go:334, slack.go:66 - retry.Attempts(5)
CallAttempts == 5

\* what one attempt of a remote call returns
GetPROutcomes == {"ok", "not found", "server error"}
PostOutcomes == {"ok", "channel_not_found", "not_in_channel", "rate_limited", "server error"}

\* main.go:321-329, slack.go:48-62 - what the function passed to retry.Do
\* makes of a failed attempt: retry.Unrecoverable(err) or err
Classify_retryAll(api, out) == "retry"
Classify(api, out) ==
    CASE api = "GetPR" -> IF out = "not found" THEN "unrecoverable" ELSE "retry"
      [] api = "PostThread" ->
            IF out = "rate_limited" THEN "retry"
            ELSE IF out \in {"channel_not_found", "not_in_channel"} THEN "unrecoverable"
            ELSE "retry"
      [] OTHER -> "retry"

\* main.go:318-340, slack.go:46-71 - retry.Do from its n-th attempt on: it
\* returns on success, on an unrecoverable error and after the last attempt
RECURSIVE RetryDo(_, _, _)
RetryDo(api, outs, n) ==
    IF outs[n] = "ok" THEN [err |-> "", tries |-> n]
    ELSE IF Classify(api, outs[n]) = "unrecoverable" \/ n = CallAttempts
         THEN [err |-> outs[n], tries |-> n]
         ELSE RetryDo(api, outs, n + 1)

\* the courses of a remote call used where several calls are combined
Scripts ==
    {[n \in 1..CallAttempts |-> "ok"],
     [n \in 1..CallAttempts |-> "server error"],
     [n \in 1..CallAttempts |-> "not found"],
     [n \in 1..CallAttempts |-> IF n < 3 THEN "server error" ELSE "ok"]}

\* main.go:348-377 - GetPRReviews: the reviews, or an empty list and no error
\* when the retries are used up
GetPRReviews_whatever(outs, reviews) == reviews
GetPRReviews(outs, reviews) ==
    IF RetryDo("ListReviews", outs, 1).err # "" THEN <<>> ELSE reviews

\* main.go:380-421, 438-458 - GetPRChecks fetches the pull request again for
\* its head commit and then lists the check runs; GetPRState goes on
\* without check runs when either fails
GetPRChecks(item, outs, checks) ==
    IF RetryDo("GetPR", item, 1).err # "" THEN <<>>
    ELSE IF RetryDo("ListCheckRunsForRef", outs, 1).err # "" THEN <<>>
    ELSE checks

\* main.go:424-510 - Client.GetPRState with its fetches
ClientGetPRState(in) ==
    IF RetryDo("GetPR", in.item, 1).err # ""
    THEN [err |-> "failed to get PR after retries", state |-> "", blockedOn |-> <<>>]
    ELSE LET r == GetPRState(in.pr, GetPRChecks(in.item2, in.checkOuts, in.checks),
                             GetPRReviews(in.reviewOuts, in.reviews))
         IN  [err |-> "", state |-> r.state, blockedOn |-> r.blockedOn]

\* the pull request and the signals GitHub holds when GetPRState is called
RemoteStates ==
    [api : {"GetPRState"}, item : Scripts, item2 : Scripts, checkOuts : Scripts,
     reviewOuts : Scripts, pr : {TrackedPR, [TrackedPR EXCEPT !.merged = TRUE]},
     checks : {<<>>, <<FailedCheck>>}, reviews : {<<>>, <<"CHANGES_REQUESTED">>}]

\* a remote call starts: GetPR or PostThread with the course of its attempts
RemoteCall ==
    /\ ~rin.call
    /\ \/ \E outs \in [1..CallAttempts -> GetPROutcomes] :
              rin' = [call |-> TRUE, api |-> "GetPR", outs |-> outs]
       \/ \E outs \in [1..CallAttempts -> PostOutcomes] :
              rin' = [call |-> TRUE, api |-> "PostThread", outs |-> outs]
    /\ UNCHANGED <<rout, storeVars, notifyVars, ingestVars>>

\* GetPRState is called
RemoteState ==
    /\ ~rin.call
    /\ \E in \in RemoteStates : rin' = in @@ [call |-> TRUE]
    /\ UNCHANGED <<rout, storeVars, notifyVars, ingestVars>>

\* the call returns
RemoteReturn ==
    /\ rin.call
    /\ ~rout.call
    /\ rout' = [call |-> TRUE, handled |-> FALSE,
                result |-> IF rin.api = "GetPRState" THEN ClientGetPRState(rin)
                           ELSE RetryDo(rin.api, rin.outs, 1)]
    /\ UNCHANGED <<rin, storeVars, notifyVars, ingestVars>>

\* notify.go:446-451, 457-513 - handlePullRequestEvent with what GetPRState
\* returned: it returns on an error and stores the item otherwise
RemoteHandled ==
    /\ rout.call
    /\ rin.api = "GetPRState"
    /\ ~rout.handled
    /\ rout' = [rout EXCEPT !.handled = TRUE]
    /\ IF rout.result.err # ""
       THEN UNCHANGED storeVars
       ELSE /\ storePRState("default",
                            BuildPR("o", "x", rout.result,
                                    StoreGetPRState("default", "o", "x", 1)))
            /\ UNCHANGED ops
    /\ UNCHANGED <<rin, notifyVars, ingestVars>>

NextRemote ==
    \/ RemoteCall
    \/ RemoteState
    \/ RemoteReturn
    \/ RemoteHandled

SpecRemote == Init /\ [][NextRemote]_vars

\* the resolver applied to every fetched signal set within the bounds
NextResolver ==
    \/ /\ ~rin.call
       /\ \E pr \in PullRequests, checks \in SeqsUpTo(CheckRuns, MaxLen),
             reviews \in SeqsUpTo(ReviewStates, MaxLen) : Fetch(pr, checks, reviews)
    \/ Resolve

SpecResolver == Init /\ [][NextResolver]_vars

(***************************************************************************)
(* Properties of the resolver (checked under SpecResolver).                *)
(***************************************************************************)
\* the rules of the contract, read off the fetched signals without the loops
AnyCheck(P(_)) == \E i \in 1..Len(rin.checks) : P(rin.checks[i])
AnyReview(st) == \E i \in 1..Len(rin.reviews) : rin.reviews[i] = st
NonTerminal(c) == c.status = "in_progress" \/ c.status = "queued" \/ c.status = "pending"
FailedRun(c) == c.status = "completed" /\ c.conclusion \notin {"success", "skipped"}

AwaitingList ==
    rin.pr.reviewers \o [i \in 1..Len(rin.pr.teams) |-> "team:" \o rin.pr.teams[i]]

FirstMatchingRule ==
    CASE rin.pr.merged -> <<"pray", <<>>>>
      [] ~rin.pr.merged /\ rin.pr.state = "closed" -> <<"face_palm", <<>>>>
      [] OTHER ->
           IF AnyCheck(NonTerminal) THEN <<"test_tube", <<>>>>
           ELSE IF AnyCheck(FailedRun) THEN <<"broken_heart", <<rin.pr.author>>>>
           ELSE IF AnyReview("CHANGES_REQUESTED") THEN <<"carpentry_saw", <<rin.pr.author>>>>
           ELSE IF AnyReview("APPROVED") THEN <<"check", <<rin.pr.author>>>>
           ELSE <<"hourglass", AwaitingList>>

\* C1: for every fetched signal set, GetPRState returns the label and the
\* attribution of the first rule that matches, in the order merged, closed,
\* checks running, checks failed, changes requested, approved, awaiting review.
C1_FirstMatchWins ==
    rout.call => <<rout.result.state, rout.result.blockedOn>> = FirstMatchingRule

\* a call where rules 5 and 6 both match and rule 5 is the one returned
C1_Witness ==
    /\ rout.call
    /\ AnyReview("APPROVED")
    /\ AnyReview("CHANGES_REQUESTED")
    /\ rout.result.state = "carpentry_saw"

\* C2 as stated: merged gives no attribution, and each of closed-unmerged,
\* checks-running, checks-failed, changes-requested and approved gives exactly
\* [author].
C2_AuthorForEveryOtherLabel ==
    rout.call =>
        /\ rout.result.state = "pray" => rout.result.blockedOn = <<>>
        /\ rout.result.state \in {"face_palm", "test_tube", "broken_heart",
                                  "carpentry_saw", "check"}
               => rout.result.blockedOn = <<rin.pr.author>>

\* C2 amended: merged, closed-unmerged and checks-running give no attribution;
\* checks-failed, changes-requested and approved give exactly [author].
C2_AttributionByLabel ==
    rout.call =>
        /\ rout.result.state \in {"pray", "face_palm", "test_tube"}
               => rout.result.blockedOn = <<>>
        /\ rout.result.state \in {"broken_heart", "carpentry_saw", "check"}
               => rout.result.blockedOn = <<rin.pr.author>>

\* a closed, unmerged pull request with a failed check: no attribution; and
\* the calls that attribute the author are reached too
C2_Witness ==
    /\ rout.call
    /\ \/ /\ rout.result.state = "face_palm"
          /\ AnyCheck(FailedRun)
          /\ rout.result.blockedOn = <<>>
       \/ /\ rout.result.state = "check"
          /\ rout.result.blockedOn = <<rin.pr.author>>
          /\ rin.pr.reviewers # <<>>

\* C3: an awaiting-review result attributes exactly the requested reviewers in
\* source order followed by the requested teams in source order, each team as
\* "team:" plus its slug, so that no team entry equals a login.
C3_AwaitingAttribution ==
    (rout.call /\ rout.result.state = "hourglass") =>
        /\ rout.result.blockedOn = AwaitingList
        /\ \A i \in 1..Len(rout.result.blockedOn) :
               i > Len(rin.pr.reviewers) => rout.result.blockedOn[i] \notin Logins

\* a team whose slug is a requested reviewer's login, after two reviewers,
\* with a past review that requested nothing
C3_Witness ==
    /\ rout.call
    /\ rout.result.state = "hourglass"
    /\ rin.pr.reviewers = <<"bob", "alice">>
    /\ rin.pr.teams = <<"alice">>
    /\ AnyReview("COMMENTED")
    /\ Len(rout.result.blockedOn) = 3

(***************************************************************************)
(* Properties of the store (checked under Spec).                           *)
(***************************************************************************)
\* C4: within one tenant a SetPRState call writes the one record under
\* "owner/repo#number": a record of the same triple is replaced and the number
\* of records does not grow, and the records of other triples stay as they were.
C4_OneKeyPerTriple ==
    last.op = "SetPRState" =>
        LET before == last.before
            after == data[last.ws].PRs
            key == last.pr.Owner \o "/" \o last.pr.Repo \o "#" \o ToString(last.pr.Number)
            same(k) == Triple(before[k]) = Triple(last.pr)
        IN  /\ DOMAIN after = DOMAIN before \cup {key}
            /\ after[key] = last.pr
            /\ \A k \in DOMAIN after : Triple(after[k]) = Triple(last.pr) <=> k = key
            /\ \A k \in DOMAIN before : ~same(k) => after[k] = before[k]
            /\ (\E k \in DOMAIN before : same(k))
                   => Cardinality(DOMAIN after) = Cardinality(DOMAIN before)

\* a record is replaced by a different one of the same triple while a record
\* of another triple is stored beside it
C4_Witness ==
    /\ last.op = "SetPRState"
    /\ Cardinality(DOMAIN last.before) = 2
    /\ \E k \in DOMAIN last.before :
           /\ Triple(last.before[k]) = Triple(last.pr)
           /\ last.before[k].State # last.pr.State
    /\ Cardinality(DOMAIN data[last.ws].PRs) = 2

InstantsOfPrefs(users) ==
    [u \in DOMAIN users |-> [users[u] EXCEPT !.LastNotified = Instant(@)]]
InstantsOfPRs(prs) ==
    [k \in DOMAIN prs |-> [prs[k] EXCEPT !.LastUpdated = Instant(@),
                                         !.LastNotified = Instant(@)]]

\* C5: a tenant loaded from its snapshot has the preferences map, the item map
\* and the reverse index that the save read from memory, times compared as
\* instants.
C5_RoundTrip ==
    \A ws \in Tenants :
        loaded[ws].exists =>
            /\ InstantsOfPrefs(loaded[ws].got.Users) = InstantsOfPrefs(loaded[ws].from.Users)
            /\ InstantsOfPRs(loaded[ws].got.PRs) = InstantsOfPRs(loaded[ws].from.PRs)
            /\ loaded[ws].got.UserPRs = loaded[ws].from.UserPRs

\* a tenant with a last-notified time, an item with a thread and a reverse
\* index entry is saved, dropped by a restart and loaded again
C5_Witness ==
    \E ws \in Tenants :
        /\ loaded[ws].exists
        /\ crashes > 0
        /\ \E u \in DOMAIN loaded[ws].got.Users : ~loaded[ws].got.Users[u].LastNotified.zero
        /\ \E k \in DOMAIN loaded[ws].got.PRs : loaded[ws].got.PRs[k].ThreadTS # ""
        /\ \E u \in DOMAIN loaded[ws].got.UserPRs : loaded[ws].got.UserPRs[u] # <<>>

\* the snapshot a finished serializer would put at the final path
NewSnapshot == [exists |-> TRUE, complete |-> TRUE, doc |-> wbuf]

\* C9 as stated: the final path of every tenant holds no partial snapshot and,
\* while and after a save runs, the previous or the new snapshot; after a save
\* that failed at any stage the final path holds the previous snapshot and the
\* temporary file does not exist.
C9_CrashSafeReplacement ==
    /\ \A ws \in Tenants : disk[FileName(ws)].exists => disk[FileName(ws)].complete
    /\ wpc \in {"create", "encUsers", "encPRs", "encUserPRs", "gzclose", "fclose",
                "rename", "stamp"}
           => \/ disk[FileName(wcur)] = wprev
              \/ disk[FileName(wcur)] = NewSnapshot
    /\ (wpc = "stamp" /\ wfailed)
           => /\ disk[FileName(wcur)] = wprev
              /\ ~disk[TempFile(wcur)].exists

(***************************************************************************)
(* Properties of the save worker in time (checked under SpecTimed).        *)
(***************************************************************************)
\* C6: within one run of the worker, two consecutive durable writes of a
\* tenant are at least 5 seconds apart, whether the queue or the sweep
\* triggered them; so a burst of mutations within one second is written at
\* most once in that second.
C6_Debounce ==
    \A ws \in Tenants :
        prevWrite[ws].set => lastWrite[ws].t - prevWrite[ws].t >= DebounceInterval

\* a tenant is written, mutated, and written again exactly 5 seconds later
C6_Witness ==
    \E ws \in Tenants :
        /\ prevWrite[ws].set
        /\ lastWrite[ws].t - prevWrite[ws].t = DebounceInterval
        /\ Len(mutTimes[ws]) = 2

\* the mutations of ws that no durable write holds yet
Dirty(ws) == durable[ws] < Len(mutTimes[ws])
LastMutation(ws) == mutTimes[ws][Len(mutTimes[ws])]
OldestDirty(ws) == mutTimes[ws][durable[ws] + 1]

\* C7 as stated, for a tenant the worker has written before: the state left by
\* the last mutation of the tenant is on disk within 5 seconds of that mutation.
C7_DurableWithinDebounce ==
    \A ws \in Tenants :
        (lastWrite[ws].set /\ Dirty(ws)) => now - LastMutation(ws) <= DebounceInterval

\* C8: with the worker running and writes succeeding, every mutation of a
\* tenant is held by a durable write of that tenant no later than one sweep
\* window and one ticker period after it, whether its enqueue was served,
\* dropped or skipped by the debounce rule.
C8_SweepMakesDurable ==
    \A ws \in Tenants : Dirty(ws) => now - OldestDirty(ws) <= SweepWindow + TickerPeriod

\* a mutation whose enqueue the debounce rule skipped is written by a sweep
\* more than five minutes later
C8_Witness ==
    \E ws \in Tenants :
        /\ Len(mutTimes[ws]) = 2
        /\ durable[ws] = 2
        /\ lastWrite[ws].set
        /\ prevWrite[ws].set
        /\ mutTimes[ws][2] - prevWrite[ws].t < DebounceInterval
        /\ lastWrite[ws].t - mutTimes[ws][2] > SweepWindow

(***************************************************************************)
(* Properties of NotifyUser (checked under SpecNotify).                    *)
(***************************************************************************)
\* C10: a call of NotifyUser that finds the user's real-time preference
\* false returns without a presence lookup, without a direct message and
\* without updating the user's last-notified time.
C10_RealTimeGate ==
    \A c \in Callers :
        (ncall[c].pc \notin {"idle", "load", "reread"}
         /\ ~ncall[c].prefs.RealTimeNotifications)
            => /\ ncall[c].pc = "done"
               /\ ncall[c].lookups = 0
               /\ ncall[c].dms = 0
               /\ ~ncall[c].touched

\* a call for a user whose stored preference is false, read from the
\* snapshot after a restart, has returned
C10_Witness ==
    \E c \in Callers :
        /\ ncall[c].pc = "done"
        /\ ~ncall[c].prefs.RealTimeNotifications
        /\ loaded[ncall[c].ws].exists
        /\ ncall[c].prefs.Timezone = "UTC"

\* the fields of a preference record other than the last-notified time
Settings(prefs) ==
    <<prefs.RealTimeNotifications, prefs.ChannelNotifyDelay, prefs.DailyReminders,
      prefs.Timezone>>

\* C15 as stated: UpdateLastNotified leaves the real-time flag, the delay, the
\* daily-reminder flag and the timezone that GetUserPreferences returns for
\* the user as they were, also for a user without a stored record.
C15_OnlyLastNotifiedChanges ==
    last.op = "UpdateLastNotified" =>
        Settings(GetUserPreferences(last.ws, last.userID)) = Settings(last.before)

\* the calls that hold the preferences and have evaluated the gates on them
PastGates(c) == ncall[c].pc \in {"presence", "send", "touch", "done"}

\* seconds between the last-notified time a call read and the moment it read it
Elapsed(c) == ncall[c].readAt - ncall[c].prefs.LastNotified.t

\* C11: a call that finds real-time delivery on and less than the configured
\* delay elapsed since the last-notified time returns without a presence
\* lookup, without a message, without an error and without touching
\* last-notified; a call that finds real-time delivery on and the zero
\* timestamp goes on to the presence lookup.
C11_DelayGate ==
    \A c \in GateCallers :
        PastGates(c) /\ ncall[c].prefs.RealTimeNotifications =>
            /\ (~ncall[c].prefs.LastNotified.zero
                    /\ Elapsed(c) < ncall[c].prefs.ChannelNotifyDelay)
                   => /\ ncall[c].pc = "done"
                      /\ ncall[c].lookups = 0
                      /\ ncall[c].dms = 0
                      /\ ~ncall[c].touched
                      /\ ~ncall[c].err
            /\ ncall[c].prefs.LastNotified.zero
                   => ncall[c].pc = "presence" \/ ncall[c].lookups = 1

\* a call suppressed with a delay of 30 minutes, 10 minutes after the last
\* notification, while another call has got past the gate on the zero timestamp
C11_Witness ==
    \E c, d \in GateCallers :
        /\ ncall[c].pc = "done"
        /\ ncall[c].prefs.RealTimeNotifications
        /\ ~ncall[c].prefs.LastNotified.zero
        /\ ncall[c].prefs.ChannelNotifyDelay = 30 * 60
        /\ Elapsed(c) = 10 * 60
        /\ ncall[c].dms = 0
        /\ ncall[d].pc = "done"
        /\ ncall[d].prefs.LastNotified.zero
        /\ ncall[d].touched

\* C12: the step in which the presence lookup of a call answers anything
\* other than "active", a failed lookup included, ends the call: it sends no
\* message, returns no error and changes neither the stored records nor the
\* messages delivered, so last-notified stays as it was.
C12_PresenceGate ==
    [][\A c \in GateCallers :
           (ncall[c].pc = "presence" /\ ncall'[c].lookups = ncall[c].lookups + 1
                /\ ncall'[c].answer # "active")
               => /\ ncall'[c].pc = "done"
                  /\ ncall'[c].dms = 0
                  /\ ~ncall'[c].touched
                  /\ ~ncall'[c].err
                  /\ data' = data
                  /\ dmLog' = dmLog]_vars

\* a call deferred by the presence gate, and a call started after it returned
\* that found the user active, sent the message and recorded it
C12_Witness ==
    \E c, d \in GateCallers :
        /\ ncall[d].pc = "done"
        /\ ncall[c].pc = "done"
        /\ d \in ncall[c].follows
        /\ ncall[d].answer \in {"away", "error"}
        /\ ncall[d].dms = 0
        /\ ~ncall[d].touched
        /\ ncall[c].user = ncall[d].user
        /\ ncall[c].answer = "active"
        /\ ncall[c].dms = 1
        /\ ncall[c].touched

\* C13: a call that got past the three gates and has returned made exactly
\* one delivery attempt; it updated last-notified exactly when the attempt
\* delivered the message, and it returned an error exactly when the attempt
\* failed, leaving last-notified alone.
C13_SendThenRecord ==
    \A c \in GateCallers :
        (ncall[c].pc = "done" /\ ncall[c].answer = "active") =>
            /\ ncall[c].sends = 1
            /\ ncall[c].touched <=> ncall[c].dms = 1
            /\ ncall[c].err <=> ncall[c].dms = 0
            /\ ncall[c].err => ~ncall[c].touched

\* one call whose delivery failed and one whose delivery succeeded
C13_Witness ==
    \E c, d \in GateCallers :
        /\ ncall[c].pc = "done"
        /\ ncall[c].answer = "active"
        /\ ncall[c].err
        /\ ~ncall[c].touched
        /\ ncall[d].pc = "done"
        /\ ncall[d].answer = "active"
        /\ ncall[d].dms = 1
        /\ ncall[d].touched

\* C14 as stated: of two messages delivered to the same user, the later one
\* is delivered no sooner than the user's configured delay after the earlier
\* one, however the NotifyUser calls interleave.
C14_NoDuplicateDelivery ==
    \A i, j \in DOMAIN dmLog :
        (i < j /\ dmLog[i].user = dmLog[j].user) =>
            dmLog[j].t - dmLog[i].t >= dmLog[j].delay

\* what a lookup of the item (owner, repo, number) in record w finds
ItemIn(w, owner, repo, number) ==
    IF PRKey(owner, repo, number) \in DOMAIN w.PRs
    THEN {w.PRs[PRKey(owner, repo, number)]}
    ELSE {}

\* the items record w lists for userID
ListedIn(w, userID) ==
    IF userID \in DOMAIN w.UserPRs THEN CollectPRs(w.PRs, w.UserPRs[userID]) ELSE <<>>

\* C20 as stated: for a tenant that is absent from memory and has a durable
\* snapshot, the read operations answer from the snapshot: GetPRState
\* returns the persisted item, GetUserPRs the persisted items of the user,
\* GetUserPreferences the persisted preferences.
C20_LazyLoadOnEveryOperation ==
    \A ws \in Tenants :
        (~data[ws].exists /\ loadWorkspaceDataLocked(ws).exists) =>
            LET snapshot == loadWorkspaceDataLocked(ws)
            IN  /\ \A tr \in PRTriples :
                       StoreGetPRState(ws, tr[1], tr[2], tr[3])
                           = ItemIn(snapshot, tr[1], tr[2], tr[3])
                /\ \A u \in DOMAIN snapshot.UserPRs :
                       GetUserPRs(ws, u) = ListedIn(snapshot, u)
                /\ \A u \in DOMAIN snapshot.Users :
                       GetUserPreferences(ws, u) = snapshot.Users[u]

\* C16: the only steps that take Run out of the connected state are a read
\* that fails and the sight of the cancelled context.  After a close with
\* code 1000 Run has returned nil and has made no further connect attempt;
\* after any other read failure Run is back at the top of its outer loop,
\* which it leaves for a new round of connect attempts unless the context is
\* cancelled.
C16_ConnectedTransitions ==
    [][/\ (ipc = "connected" /\ ipc' # "connected") =>
              \/ /\ wsConn' = "broken"
                 /\ lastRead' = "normal closure"
                 /\ ipc' = "stopped"
                 /\ iresult' = "nil"
                 /\ dials' = dials
              \/ /\ wsConn' = "broken"
                 /\ lastRead' \notin {"normal closure", "message", "none"}
                 /\ ipc' = "check"
                 /\ iresult' = "running"
              \/ /\ cancelled
                 /\ ipc' = "stopped"
                 /\ iresult' = "cancelled"
       /\ (ipc = "connected" /\ wsConn' = "broken") =>
              (lastRead' = "normal closure" <=> ipc' = "stopped")
       /\ (ipc = "check" /\ ipc' # "check" /\ ~cancelled) =>
              (ipc' = "connecting" /\ attempt' = 0 /\ delays' = <<>>)
       /\ (ipc = "stopped" /\ iresult = "nil") =>
              (ipc' = "stopped" /\ dials' = dials /\ attempt' = attempt)]_vars

\* Run has reconnected after an expired read deadline and is reading again
C16_Witness ==
    /\ ipc = "connected"
    /\ dials = 2
    /\ lastRead = "deadline"
    /\ wsConn = "open"

\* C17: in the running round of connect attempts the first delay is one
\* second, no delay is above the cap of two minutes, and no delay is shorter
\* than the one before it.
C17_BackoffCapped ==
    \A n \in DOMAIN delays :
        /\ delays[n] <= 2 * 60
        /\ n = 1 => delays[n] = 1
        /\ n > 1 => delays[n] >= delays[n - 1]

\* nine failed attempts in a row: the last two delays are at the cap
C17_Witness ==
    /\ Len(delays) = 9
    /\ delays[7] = 64
    /\ delays[8] = 2 * 60
    /\ delays[9] = 2 * 60

\* handler i is running and this step ends it with an error or a panic
Fails(i) ==
    /\ handlers[i].pc \notin {"done", "killed"}
    /\ handlers'[i].panicked \/ handlers'[i].result \in {"error", "panic"}

\* C18: a decoded message gets a handler of its own while Run stays in its
\* read loop; the step in which a handler ends with an error or panics
\* leaves it finished with a returned error, leaves the process alive, Run
\* where it was on the same connection, and every other handler as it was.
C18_FaultIsolation ==
    [][/\ Len(handlers') > Len(handlers) =>
              /\ ipc' = "connected" /\ ipc = "connected"
              /\ wsConn' = wsConn
              /\ Len(handlers') = Len(handlers) + 1
              /\ handlers'[Len(handlers')].pc = "start"
              /\ \A j \in DOMAIN handlers : handlers'[j] = handlers[j]
       /\ \A i \in DOMAIN handlers :
              Fails(i) =>
                  /\ handlers'[i].pc = "done"
                  /\ handlers'[i].result = "error"
                  /\ alive'
                  /\ ipc' = ipc
                  /\ iresult' = iresult
                  /\ wsConn' = wsConn
                  /\ dials' = dials
                  /\ \A j \in DOMAIN handlers \ {i} : handlers'[j] = handlers[j]]_vars

\* one handler panicked and returned an error; the handler of another message
\* has since stored its item and returned nil, and Run still reads from the
\* first connection
C18_Witness ==
    \E i, j \in DOMAIN handlers :
        /\ handlers[i].panicked
        /\ handlers[i].pc = "done"
        /\ handlers[i].result = "error"
        /\ handlers[j].pc = "done"
        /\ handlers[j].result = "nil"
        /\ handlers[j].mutations = 1
        /\ ipc = "connected"
        /\ dials = 1
        /\ wsConn = "open"

\* the separators in a repository identifier
RECURSIVE Slashes(_)
Slashes(id) ==
    IF id = <<>> THEN 0
    ELSE (IF Head(id) = "/" THEN 1 ELSE 0) + Slashes(Tail(id))

\* an identifier of two non-empty segments: one separator, neither first nor last
WellFormed(id) ==
    /\ Slashes(id) = 1
    /\ id[1] # "/"
    /\ id[Len(id)] # "/"

\* C19: the first step of the handler of a message whose repository
\* identifier is not two non-empty segments ends it with a returned error;
\* the handler has loaded no configuration, fetched nothing, stored nothing
\* and posted nothing, and the step changes neither the store, the loaded
\* configurations, the connection nor the position of Run.
C19_MalformedRepoRejected ==
    [][\A i \in DOMAIN handlers :
           (handlers[i].pc = "start" /\ handlers'[i] # handlers[i]
                /\ ~WellFormed(handlers[i].msg.repo))
               => /\ handlers'[i].pc = "done"
                  /\ handlers'[i].result = "error"
                  /\ ~handlers'[i].panicked
                  /\ handlers'[i].loads = 0
                  /\ handlers'[i].fetches = 0
                  /\ handlers'[i].mutations = 0
                  /\ handlers'[i].posts = 0
                  /\ data' = data
                  /\ saveChan' = saveChan
                  /\ configs' = configs
                  /\ dmLog' = dmLog
                  /\ wsConn' = wsConn
                  /\ ipc' = ipc]_vars

\* a message with an empty owner segment has been rejected on a connection
\* that is still open and read
C19_Witness ==
    \E i \in DOMAIN handlers :
        /\ handlers[i].msg.repo = <<"/", "x">>
        /\ handlers[i].pc = "done"
        /\ handlers[i].result = "error"
        /\ wsConn = "open"
        /\ ipc = "connected"

\* C21 as stated: a load of a tenant that completes after the tenant is in
\* memory does not replace the record, so the preferences the latest store
\* mutation of this run put in memory are still there.
C21_LateLoadHarmless ==
    last.op = "SetUserPreferences" =>
        /\ data[last.ws].exists
        /\ last.userID \in DOMAIN data[last.ws].Users
        /\ data[last.ws].Users[last.userID] = last.prefs

\* C24: a store mutation invoked for tenant A leaves the record in memory
\* and the snapshot file of every other tenant as they were, and the record
\* every operation for a tenant works on, created in memory or loaded from
\* the tenant's file, is the record of that tenant.
C24_TenantIsolation ==
    [][/\ \A A \in Tenants :
              (ops' = ops + 1 /\ last'.ws = A) =>
                  \A B \in Tenants \ {A} :
                      /\ data'[B] = data[B]
                      /\ disk'[FileName(B)] = disk[FileName(B)]
       /\ \A ws \in Tenants :
              data'[ws].exists => data'[ws].WorkspaceID = ws]_vars

\* after a restart one tenant has been loaded from its file and mutated
\* while the other tenant, with an item of its own on disk, is not in memory
C24_Witness ==
    /\ crashes = 1
    /\ data["default"].exists
    /\ last.op = "SetUserPreferences"
    /\ last.ws = "default"
    /\ data["default"].PRs = EmptyMap
    /\ ~data["w2"].exists
    /\ loadWorkspaceDataLocked("w2").exists
    /\ loadWorkspaceDataLocked("w2").PRs # EmptyMap

\* a record in which every key of a reverse-index list has its item
Whole(w) ==
    \A u \in DOMAIN w.UserPRs :
        \A n \in 1..Len(w.UserPRs[u]) : w.UserPRs[u][n] \in DOMAIN w.PRs

\* until something is loaded from a snapshot every record in memory is
\* whole: SetPRState adds an item and its reverse-index entries in one step
\* under the lock
WholeInMemory == crashes = 0 => \A ws \in Tenants : data[ws].exists => Whole(data[ws])

\* C29 as stated: a snapshot written by saveWorkspaceData is the record as
\* it was in memory at one instant, so a SetPRState that ran during the save
\* is in the snapshot with both its item and its reverse-index entries or
\* with neither: before the first restart the snapshot is whole, as the
\* record in memory is at every instant (WholeInMemory).
C29_SnapshotAtOneInstant ==
    \A ws \in Tenants :
        (crashes = 0 /\ lastWrite[ws].set /\ loadWorkspaceDataLocked(ws).exists) =>
            Whole(loadWorkspaceDataLocked(ws))

\* C28 as stated: a key that is in the item map of a tenant stays in it
\* under store operations, lazy loads and saves: the item the latest
\* SetPRState of this run stored, and the items that were there before it,
\* are in the map.
C28_ItemsNeverDeleted ==
    last.op = "SetPRState" =>
        /\ data[last.ws].exists
        /\ PRKey(last.pr.Owner, last.pr.Repo, last.pr.Number) \in DOMAIN data[last.ws].PRs
        /\ DOMAIN last.before \subseteq DOMAIN data[last.ws].PRs

\* C22: at most one thread per item - a handler that stores the item when
\* the stored item already has a thread has posted no thread of its own and
\* leaves the stored thread reference as it found it.
C22_OneThreadPerItem ==
    \A i \in DOMAIN handlers :
        (handlers[i].pc = "done" /\ handlers[i].mutations > 0
            /\ handlers[i].seenThread # "") =>
                /\ handlers[i].thread = ""
                /\ heap[handlers[i].ref].ThreadTS = handlers[i].seenThread

\* C30: the records the store holds change only inside a store mutation -
\* every step that changes the in-memory maps is a store operation, which
\* registers itself in the mutation history.
C30_OnlyStoreMutates ==
    [][data' # data => mutTimes' # mutTimes]_vars

\* every identity an item of w is blocked on has the item's key in its list
Indexed(w) ==
    \A key \in DOMAIN w.PRs : \A n \in 1..Len(w.PRs[key].BlockedOn) :
        /\ w.PRs[key].BlockedOn[n] \in DOMAIN w.UserPRs
        /\ contains(w.UserPRs[w.PRs[key].BlockedOn[n]], key)

\* C23: reverse-index consistency - in every state of a tenant every stored
\* item is listed under every identity it is blocked on and no list holds a
\* key twice, and no step takes a key off a list.
C23_ReverseIndexConsistent ==
    /\ [](\A ws \in Tenants : data[ws].exists =>
              /\ Indexed(data[ws])
              /\ \A u \in DOMAIN data[ws].UserPRs : NoRepeat(data[ws].UserPRs[u]))
    /\ [][\A ws \in Tenants : (data[ws].exists /\ data'[ws].exists) =>
              \A u \in DOMAIN data[ws].UserPRs :
                  /\ u \in DOMAIN data'[ws].UserPRs
                  /\ \A n \in 1..Len(data[ws].UserPRs[u]) :
                         contains(data'[ws].UserPRs[u], data[ws].UserPRs[u][n])]_vars

\* the identities the latest SetPRState added to the blocking attribution of
\* its item
NewlyBlocked ==
    LET key == PRKey(last.pr.Owner, last.pr.Repo, last.pr.Number)
    IN  {last.pr.BlockedOn[n] : n \in 1..Len(last.pr.BlockedOn)} \
            (IF key \in DOMAIN last.before
             THEN {last.before[key].BlockedOn[n] : n \in 1..Len(last.before[key].BlockedOn)}
             ELSE {})

\* C26: event-triggered notification - once the handlers have returned,
\* NotifyUser has been invoked for every identity the latest stored event
\* added to the blocking attribution of its item.
C26_NotifyOnNewBlame ==
    (last.op = "SetPRState" /\ ~Busy) =>
        \A u \in NewlyBlocked :
            \E c \in DOMAIN ncall : ncall[c].pc # "idle" /\ ncall[c].user = u

\* the events so far were handled one after the other, each to its end
\* without a failed fetch or a panic
HandledInTurn ==
    /\ ~Busy
    /\ \A i \in DOMAIN handlers :
           /\ handlers[i].pc = "done"
           /\ ~handlers[i].overlapped
           /\ ~handlers[i].fetchFailed
           /\ ~handlers[i].panicked

\* C27: end-to-end tracking - once the events about a tracked item have
\* been handled in turn, its stored status and blocking attribution are
\* what the resolver returns for the signals GitHub holds.
C27_StoredFollowsSignals ==
    (HandledInTurn /\ StoreGetPRState("default", "o", "x", 1) # {}) =>
        \A item \in StoreGetPRState("default", "o", "x", 1) :
            /\ item.State = GetPRState(remote.pr, remote.checks, remote.reviews).state
            /\ item.BlockedOn = GetPRState(remote.pr, remote.checks, remote.reviews).blockedOn

\* the tasks of the ingestor and of the notifier have returned
LoopsExited ==
    /\ ipc = "stopped"
    /\ \A k \in DOMAIN pingers : pingers[k] # "running"
    /\ nrun = "stopped"

\* C25: after the cancellation signal every long-lived task exits its loop
\* in the end - the connect-and-read loop, the keepalive senders, the
\* notification ticker and saveWorker.
C25_AllTasksExit ==
    cancelled ~> (LoopsExited /\ wpc = "returned")

\* every event so far was handled to its end by a handler that fetched the
\* upstream signals and stored what it resolved
AllRefetched ==
    /\ handlers # <<>>
    /\ \A i \in DOMAIN handlers :
           /\ handlers[i].pc = "done"
           /\ handlers[i].fetches > 0
           /\ handlers[i].mutations > 0
           /\ ~handlers[i].fetchFailed
           /\ ~handlers[i].panicked

\* C31: convergence under out-of-order dispatch - once concurrently running
\* handlers that each fetched the upstream signals have all finished, the
\* stored status and blocking attribution are the resolution of the signals
\* GitHub holds now.
C31_ConvergesToLatest ==
    AllRefetched =>
        \A item \in StoreGetPRState("default", "o", "x", 1) :
            /\ item.State = GetPRState(remote.pr, remote.checks, remote.reviews).state
            /\ item.BlockedOn = GetPRState(remote.pr, remote.checks, remote.reviews).blockedOn

\* what the mutation recorded in op has left in the tenant w
Applied(op, w) ==
    /\ w.exists
    /\ CASE op.op = "SetUserPreferences" ->
               op.userID \in DOMAIN w.Users /\ w.Users[op.userID] = op.prefs
         [] op.op = "SetPRState" ->
               /\ PRKey(op.pr.Owner, op.pr.Repo, op.pr.Number) \in DOMAIN w.PRs
               /\ w.PRs[PRKey(op.pr.Owner, op.pr.Repo, op.pr.Number)] = op.pr
         [] op.op = "UpdateLastNotified" ->
               /\ op.userID \in DOMAIN w.Users
               /\ w.Users[op.userID].LastNotified = TimeAt(now)
         [] OTHER -> FALSE

\* C32: a full save queue never fails a mutation - a mutation issued while
\* the queue is full applies its change in memory and leaves the queue as
\* it is.
C32_FullQueueDrops ==
    [][(ops' = ops + 1 /\ Len(saveChan) = SaveChanCap) =>
           /\ saveChan' = saveChan
           /\ Applied(last', data'[last'.ws])]_vars

\* two mutations were issued and the worker has not taken anything off the
\* queue: the second one found the queue full
C32_Witness ==
    /\ ops >= 2 /\ crashes = 0 /\ faults = 0
    /\ Len(saveChan) = SaveChanCap
    /\ wpc = "select"
    /\ \A ws \in Tenants : ~lastWrite[ws].set
    /\ last.op = "UpdateLastNotified"

\* the worker has served a tick of its ticker that fired after the latest
\* mutation and is back in its select
SweptSinceLast ==
    /\ wpc = "select"
    /\ ~tickPending
    /\ nextTick - TickerPeriod > LastMutation(last.ws)

\* C33: a mutation whose enqueue was dropped because the queue was full is
\* on disk once the worker has finished the next sweep after it.
C33_NextSweepPersists ==
    (last.op = "SetPRState" /\ last.dropped /\ SweptSinceLast) => ~Dirty(last.ws)

\* C34: when Run has returned because of the cancellation, its websocket
\* connection is not left open.
C34_ClosedOnCancel ==
    (ipc = "stopped" /\ iresult = "cancelled") => wsConn # "open"

\* C35: bounded connection attempts - a call of retry.Do makes at most 10
\* attempts; after the 10th failure Run has returned the error and the
\* context of the other tasks is cancelled; every episode counts its
\* failures from zero and waits 1 second after the first.
C35_BoundedAttempts ==
    /\ attempt <= Attempts
    /\ ipc = "connecting" => (attempt < Attempts /\ Len(delays) = attempt)
    /\ attempt = Attempts =>
           (ipc = "stopped" /\ iresult = "connect failed" /\ cancelled)
    /\ delays # <<>> => delays[1] = RetryDelay

\* after a connection that was lost, the next episode has failed 10 times
C35_Witness ==
    /\ dials = 1
    /\ attempt = Attempts
    /\ ipc = "stopped"
    /\ Len(delays) = Attempts - 1

(***************************************************************************)
(* Properties of the remote calls (checked under SpecRemote).              *)
(***************************************************************************)
\* a not-found response of the call api
NotFound(api, out) ==
    \/ api = "GetPR" /\ out = "not found"
    \/ api = "PostThread" /\ out \in {"channel_not_found", "not_in_channel"}

\* C36: retry taxonomy - a call of GetPR or PostThread makes between 1 and 5
\* attempts; it stops at the first success and at the first not-found
\* response, which it returns, so a call whose first response is not-found
\* makes one attempt; every other failure is followed by another attempt
\* until the fifth, whose failure is returned.
C36_RetryTaxonomy ==
    (rout.call /\ rin.api \in {"GetPR", "PostThread"}) =>
        LET r == rout.result
            outs == rin.outs
        IN  /\ r.tries \in 1..5
            /\ \A n \in 1..(r.tries - 1) :
                   outs[n] # "ok" /\ ~NotFound(rin.api, outs[n])
            /\ \/ outs[r.tries] = "ok" /\ r.err = ""
               \/ NotFound(rin.api, outs[r.tries]) /\ r.err = outs[r.tries]
               \/ r.tries = 5 /\ outs[5] # "ok" /\ r.err = outs[5]

\* a thread post that is rate limited twice and then finds no channel
C36_Witness ==
    /\ rout.call /\ rin.api = "PostThread"
    /\ rin.outs[1] = "rate_limited" /\ rin.outs[2] = "server error"
    /\ rin.outs[3] = "channel_not_found"
    /\ rout.result.tries = 3

\* whether the retried call api gets a result in the course outs
Succeeds(api, outs) ==
    \E n \in 1..5 : outs[n] = "ok" /\ \A m \in 1..(n - 1) : ~NotFound(api, outs[m])

\* C37: degraded derivation - GetPRState returns an error exactly when the
\* fetch of the item fails, and then the handler stores nothing; otherwise
\* it returns the resolution of the item with the lists it could fetch and
\* an empty list in place of each one it could not.
C37_DegradedDerivation ==
    (rout.call /\ rin.api = "GetPRState") =>
        LET r == rout.result
            checks == IF Succeeds("GetPR", rin.item2) /\ Succeeds("checks", rin.checkOuts)
                      THEN rin.checks ELSE <<>>
            reviews == IF Succeeds("reviews", rin.reviewOuts) THEN rin.reviews ELSE <<>>
        IN  /\ (r.err # "") <=> ~Succeeds("GetPR", rin.item)
            /\ r.err # "" => (last = NoOp /\ ~data["default"].exists)
            /\ r.err = "" =>
                   /\ r.state = GetPRState(rin.pr, checks, reviews).state
                   /\ r.blockedOn = GetPRState(rin.pr, checks, reviews).blockedOn
                   /\ rout.handled =>
                          \A item \in StoreGetPRState("default", "o", "x", 1) :
                              item.State = r.state /\ item.BlockedOn = r.blockedOn

\* the reviews ask for changes and cannot be fetched: the item is stored
\* as awaiting review
C37_Witness ==
    /\ rout.call /\ rin.api = "GetPRState" /\ rout.handled
    /\ rin.reviews # <<>> /\ ~rin.pr.merged
    /\ ~Succeeds("reviews", rin.reviewOuts)
    /\ rin.checks = <<>>
    /\ rout.result.state = "hourglass"
    /\ StoreGetPRState("default", "o", "x", 1) # {}

(***************************************************************************)
(* Properties of the scheduler (checked under SpecReminder).               *)
(***************************************************************************)
\* the hour of the day at time t; the timezones of the model are UTC
LocalHour(t) == ((StartClock + t) \div 3600) % 24

\* the user has a record with daily reminders enabled, it is between 8 and
\* 9 am and the last notification is at least 8 hours old
ReminderDue(u) ==
    /\ data["default"].exists
    /\ u \in DOMAIN data["default"].Users
    /\ data["default"].Users[u].DailyReminders
    /\ LocalHour(now) = 8
    /\ \/ data["default"].Users[u].LastNotified.zero
       \/ now - data["default"].Users[u].LastNotified.t >= 8 * 3600

\* C38: daily reminders - a tick of the scheduler delivers a reminder to a
\* user exactly when the user's reminder is due.
C38_DailyReminder ==
    [][(nrun = "checking" /\ nrun' = "waiting") =>
           \A u \in UserIDs :
               ReminderDue(u) <=>
                   \E n \in (Len(dmLog) + 1)..Len(dmLog') : dmLog'[n].user = u]_vars

(***************************************************************************)
(* Properties of the stored preference records (checked under Spec).       *)
(***************************************************************************)
\* state.go:17, 570-573 - the delays a preference record may hold, in seconds
ValidDelays == {15 * 60, 30 * 60, 60 * 60, 120 * 60}

\* C39: the notification delay of every stored preference record, and of
\* every value GetUserPreferences returns, is one of 15, 30, 60 or 120
\* minutes, after any sequence of SetUserPreferences, UpdateLastNotified and
\* loads.
C39_DelayEnumerated ==
    \A ws \in Tenants :
        /\ data[ws].exists =>
               \A u \in DOMAIN data[ws].Users :
                   data[ws].Users[u].ChannelNotifyDelay \in ValidDelays
        /\ \A u \in UserIDs :
               GetUserPreferences(ws, u).ChannelNotifyDelay \in ValidDelays

(***************************************************************************)
(* Properties of the creation of items (checked under SpecCreate).         *)
(***************************************************************************)
\* the default workspace holds an item for the pull request of the events
Stored ==
    /\ data["default"].exists
    /\ PRKey("o", "x", 1) \in DOMAIN data["default"].PRs

\* handler i stores its record in this step
Stores(i) ==
    /\ handlers[i].pc \in {"thread", "written"}
    /\ handlers'[i].pc = "done"
    /\ handlers'[i].mutations = handlers[i].mutations + 1

\* C40 as stated: an item is first created only while an 'opened' or
\* 'reopened' signal is processed; an event of any other kind or action for
\* a key without an item creates none.
C40_CreatedOnOpened ==
    [][(~Stored /\ Stored') =>
           \E i \in DOMAIN handlers :
               /\ Stores(i)
               /\ handlers[i].msg.event = "pull_request"
               /\ Opens(handlers[i].msg.action)]_vars

\* C40, amended: an item is first created only while a pull request signal
\* is processed, whatever its action; a review or check event for a key
\* without an item creates none.
C40_CreatedOnPullRequest ==
    [][(~Stored /\ Stored') =>
           \E i \in DOMAIN handlers :
               /\ Stores(i)
               /\ handlers[i].msg.event = "pull_request"]_vars

\* a review of an item that is not stored has been handled without a fetch
\* or a store, and a 'closed' signal has then created the item
C40_Witness ==
    /\ Stored
    /\ \E i, j \in DOMAIN handlers :
           /\ handlers[j].msg.event = "pull_request_review"
           /\ handlers[j].pc = "done" /\ ~handlers[j].panicked
           /\ handlers[j].fetches = 0 /\ handlers[j].mutations = 0
           /\ handlers[i].msg.event = "pull_request"
           /\ handlers[i].msg.action = "closed"
           /\ handlers[i].pc = "done" /\ handlers[i].mutations = 1

====
